---- MODULE Spec2Model ----
(***************************************************************************)
(* The bulk load of the Papers with Code relational store: the source      *)
(* collections are normalised, recurring entities are interned, the method *)
(* area/category hierarchy is derived, and entity and junction rows are     *)
(* written into the tables of papers_with_code.db.                          *)
(***************************************************************************)
EXTENDS Integers, Sequences, FiniteSets, TLC

VARIABLES
    papersFile,             \* source collection papers.json
    methodsFile,            \* source collection methods.json
    datasetsFile,           \* source collection datasets.json
    codeLinksFile,          \* source collection code-links.json
    missing,                \* the source files that are not where the run looks
    targetOk,               \* the target store can be opened and written
    code_links,             \* implementation links, one row per (title, repo)
    papers,                 \* entity tables: sequences of rows, id = position
    authors,
    tasks,
    methods,
    method_areas,
    method_categories,
    datasets,
    paper_authors,          \* junction tables: sequences of rows
    paper_tasks,
    paper_methods,
    method_categories_rel,
    cache,                  \* interner: natural key -> surrogate id, per kind
    pc,                     \* the orchestrator's position
    cursor,                 \* offset of the next record of the current file
    relTable,               \* index of the current relationship table
    batchNo,                \* number of the next batch of that table
    run,                    \* number of the current load run
    indexes,                \* secondary indexes that exist
    wlog,                   \* every row written, in write order
    batchlog,               \* one entry per batch attempted
    stats,                  \* per-run counters: attempted, rejected, committed
    summaries,              \* the final report of every finished run
    dateString,             \* frontend: the date string handed to the date helpers
    today,                  \* frontend: the browser's current local date
    tzWest,                 \* frontend: the browser's time zone is west of UTC
    validOut,               \* frontend: what isValidDate returned
    formatOut,              \* frontend: what formatDate returned
    yearOut,                \* frontend: what getYear returned
    evaluations,            \* frontend: the evaluations handed to the leaderboard
    table,                  \* frontend: what LeaderboardTable computed
    chart,                  \* frontend: what LeaderboardChart computed
    evaluationDb,           \* server: the rows of evaluation_database.db
    leaderboard,            \* server: what getLeaderboard gave its caller
    cards,                  \* papers page: the paper cards with their code links
    hook,                   \* data hook: which hook the component uses
    params,                 \* data hook: the arguments of its latest render
    inflight,               \* data hook: its requests that have not settled
    issued,                 \* data hook: number of requests it has made
    failed,                 \* data hook: the requests that were rejected
    held,                   \* data hook: the data it holds, and whose response
    loading,                \* data hook: its loading flag
    error,                  \* data hook: its error message
    urlCache,               \* API client: url -> data, the URLs that are cached
    loadingPromises,        \* API client: url -> the load in flight for it
    activeLoads,            \* API client: the loadData calls that have not settled
    started,                \* API client: number of loadData calls started
    calls,                  \* API client: number of fetchAndDecompress calls
    lastEvent,              \* API client: the latest call or settled load
    responseCache,          \* server: cache key -> {data, timestamp}
    clock,                  \* server: Date.now()
    pending,                \* server: listing requests whose query is running
    asked,                  \* server: number of listing requests received
    response,               \* server: the latest answer to a listing request
    currentPage,            \* papers page: the page shown
    pageSize,               \* papers page: papers per page
    searchQuery,            \* papers page: the search in force
    pagination,             \* usePapers: pagination of the latest result
    papersLoading,          \* usePapers: loading
    papersError,            \* usePapers: error
    fetching,               \* usePapers: requests in flight
    pageNumbers             \* papers page: the page list as rendered

entityTables == <<papers, authors, tasks, methods, method_areas,
                  method_categories, datasets, code_links>>
junctionTables == <<paper_authors, paper_tasks, paper_methods,
                    method_categories_rel>>
sources == <<papersFile, methodsFile, datasetsFile, codeLinksFile>>
config == <<missing, targetOk>>
dateVars == <<dateString, today, tzWest, validOut, formatOut, yearOut>>
boardVars == <<evaluations, table, chart>>
serverVars == <<evaluationDb, leaderboard, cards>>
hookVars == <<hook, params, inflight, issued, failed, held, loading, error>>
clientVars == <<urlCache, loadingPromises, activeLoads, started, calls,
                lastEvent>>
cacheVars == <<responseCache, clock, pending, asked, response>>
pagerVars == <<currentPage, pageSize, searchQuery, pagination, papersLoading,
               papersError, fetching, pageNumbers>>
view == <<dateVars, boardVars, serverVars, hookVars, clientVars, cacheVars,
          pagerVars>>
vars == <<sources, config, view, entityTables, junctionTables, cache, pc, cursor, relTable,
          batchNo, run, indexes, wlog, batchlog, stats, summaries>>

-----------------------------------------------------------------------------
(* Bounds of the model *)

MaxRecs == 2        \* records per source collection
BatchSize == 2      \* junction rows per transaction
MaxRuns == 2        \* load runs against the same store
MaxEvals == 2       \* evaluations of a leaderboard
MaxLinks == 3       \* rows of the code_links table the server reads
MaxRequests == 3    \* requests a data hook makes
MaxClock == 4       \* ticks of the server's clock
MaxAsked == 2       \* listing requests the server receives
MaxItems == 180     \* papers the server lists
MaxInFlight == 2    \* requests of usePapers in flight at once

(* The lifetime of a cached response, in ticks of the server's clock *)
CACHE_TTL == 2

(* The year the load runs in *)
CurrentYear == 2026

Null == "null"

-----------------------------------------------------------------------------
(* Dates *)

Date(y, m, d) == [y |-> y, m |-> m, d |-> d]
NullDate == Date(0, 0, 0)

IsLeap(y) == (y % 4 = 0 /\ y % 100 # 0) \/ y % 400 = 0

DaysIn(y, m) ==
    IF m = 2 THEN (IF IsLeap(y) THEN 29 ELSE 28)
    ELSE IF m \in {4, 6, 9, 11} THEN 30 ELSE 31

\* a syntactically valid calendar date within [1900-01-01, current_year+1]
ValidStoredDate(dt) ==
    /\ dt.m \in 1..12
    /\ dt.d \in 1..DaysIn(dt.y, dt.m)
    /\ dt.y >= 1900
    /\ dt.y <= CurrentYear + 1

\* The date a paper row gets from its record.  The built store holds the
\* source's dates as they are: its papers span 2017 to 2025 "with one outlier
\* from 2222", and the query layer has to exclude '2222-12-22' and every date
\* outside ['1900-01-01', '2030-12-31'] when it reads the papers table.
StoredDate(dt) == dt

-----------------------------------------------------------------------------
(* Frontend date helpers: utils/dateUtils.ts *)

\* a date string as the helpers get it: undefined, some text, or YYYY-MM-DD
Undefined == [kind |-> "undefined"]
Text(t) == [kind |-> "text", s |-> t]
Iso(y, m, d) == [kind |-> "iso", y |-> y, m |-> m, d |-> d]

\* !dateString
Falsy(ds) == ds.kind = "undefined" \/ (ds.kind = "text" /\ ds.s = "")

\* new Date(dateString): the instant of midnight UTC of a date-only string,
\* Invalid Date (a NaN time value) for anything that does not parse
InvalidDate == [nan |-> TRUE, y |-> 0, m |-> 0, d |-> 0]
NewDate(ds) ==
    IF ds.kind = "iso" /\ ds.m \in 1..12 /\ ds.d \in 1..DaysIn(ds.y, ds.m)
    THEN [nan |-> FALSE, y |-> ds.y, m |-> ds.m, d |-> ds.d]
    ELSE InvalidDate

\* new Date('1900-01-01')
FallbackDate == NewDate(Iso(1900, 1, 1))

\* getTime(): instants compare as their UTC calendar days do
GetTime(date) == date.y * 10000 + date.m * 100 + date.d

PrevDay(date) ==
    IF date.d > 1 THEN [date EXCEPT !.d = @ - 1]
    ELSE IF date.m > 1
         THEN [date EXCEPT !.m = @ - 1, !.d = DaysIn(date.y, date.m - 1)]
         ELSE [date EXCEPT !.y = @ - 1, !.m = 12, !.d = 31]

\* the local calendar day of an instant of midnight UTC: the day before, west
\* of UTC
LocalDay(date) == IF tzWest THEN PrevDay(date) ELSE date

\* date.getFullYear(): the year in local time
GetFullYear(date) == LocalDay(date).y

parseDate(ds) ==
    IF Falsy(ds) THEN FallbackDate
    ELSE LET date == NewDate(ds)
             currentYear == today.y
         IN  IF date.nan \/ GetFullYear(date) > currentYear + 1
             THEN FallbackDate
             ELSE date

NotAvailable == [na |-> TRUE, y |-> 0, m |-> 0, d |-> 0]

\* date.toLocaleDateString(): the local calendar day
ToLocaleDateString(date) ==
    [na |-> FALSE, y |-> LocalDay(date).y, m |-> LocalDay(date).m,
     d |-> LocalDay(date).d]

formatDate(ds) ==
    LET date == parseDate(ds)
    IN  IF GetTime(date) = GetTime(FallbackDate) THEN NotAvailable
        ELSE ToLocaleDateString(date)

getYear(ds) == GetFullYear(parseDate(ds))

isValidDate(ds) ==
    IF Falsy(ds) THEN FALSE
    ELSE LET date == NewDate(ds)
             currentYear == today.y
         IN  IF date.nan \/ GetFullYear(date) > currentYear + 1
             THEN FALSE
             ELSE TRUE

-----------------------------------------------------------------------------
(* Frontend leaderboard: components/LeaderboardTable.tsx, LeaderboardChart.tsx *)

\* the value of an evaluation's primary metric: no metrics at all, a blank
\* value (null, '' or text that is no number), or a number
NoMetrics == [kind |-> "nometrics", v |-> 0]
Blank == [kind |-> "blank", v |-> 0]
Num(n) == [kind |-> "num", v |-> n]

MinusInfinity == [kind |-> "-inf", v |-> 0]
NotComputed == [kind |-> "undefined", v |-> 0]

Evaluation(i, ds, sc) == [id |-> i, date |-> ds, score |-> sc]

\* numericScore > currentBest
Exceeds(score, best) == best.kind = "-inf" \/ score.v > best.v

\* [...evaluations].sort((a, b) => parseDate(a.date) - parseDate(b.date)):
\* a stable sort, oldest first
DateKey(e) == GetTime(parseDate(e.date))

InsertByDate(sorted, e) ==
    LET k == Cardinality({i \in DOMAIN sorted : DateKey(sorted[i]) <= DateKey(e)})
    IN  SubSeq(sorted, 1, k) \o <<e>> \o SubSeq(sorted, k + 1, Len(sorted))

RECURSIVE SortByDate(_)
SortByDate(evals) ==
    IF evals = <<>> THEN <<>>
    ELSE InsertByDate(SortByDate(SubSeq(evals, 1, Len(evals) - 1)),
                      evals[Len(evals)])

\* the map over sortedEvaluations, with its running currentBest
RECURSIVE ProcessFrom(_, _, _, _, _)
ProcessFrom(sorted, i, currentBest, cumulativeBest, done) ==
    IF i > Len(sorted)
    THEN [processedEvaluations |-> done, cumulativeBest |-> cumulativeBest]
    ELSE LET evaluation == sorted[i]
             score == evaluation.score
         IN  IF score.kind # "num"
             THEN ProcessFrom(sorted, i + 1, currentBest, cumulativeBest,
                      Append(done, [e |-> evaluation, isNewRecord |-> FALSE,
                                    cumulativeBest |-> currentBest,
                                    numericScore |-> NotComputed]))
             ELSE LET year == getYear(evaluation.date)
                      isNewRecord == Exceeds(score, currentBest)
                      push == isNewRecord /\ year > 1900
                      best == IF push THEN score ELSE currentBest
                  IN  ProcessFrom(sorted, i + 1, best,
                          IF push
                          THEN Append(cumulativeBest,
                                      [year |-> year, bestScore |-> score,
                                       id |-> evaluation.id,
                                       date |-> evaluation.date,
                                       isNewRecord |-> TRUE])
                          ELSE cumulativeBest,
                          Append(done, [e |-> evaluation,
                                        isNewRecord |-> isNewRecord,
                                        cumulativeBest |-> best,
                                        numericScore |-> score]))

Unprocessed(evals) ==
    [i \in DOMAIN evals |-> [e |-> evals[i], isNewRecord |-> FALSE,
                             cumulativeBest |-> NotComputed,
                             numericScore |-> NotComputed]]

\* the useMemo of LeaderboardTable
ProcessEvaluations(evals) ==
    IF evals = <<>>
    THEN [sortedEvaluations |-> <<>>, processedEvaluations |-> <<>>,
          cumulativeBest |-> <<>>]
    ELSE IF evals[1].score.kind = "nometrics"
    THEN [sortedEvaluations |-> <<>>,
          processedEvaluations |-> Unprocessed(evals),
          cumulativeBest |-> <<>>]
    ELSE LET sortedEvaluations == SortByDate(evals)
             out == ProcessFrom(sortedEvaluations, 1, MinusInfinity, <<>>, <<>>)
         IN  [sortedEvaluations |-> sortedEvaluations,
              processedEvaluations |-> out.processedEvaluations,
              cumulativeBest |-> out.cumulativeBest]

\* sortedForLeaderboard: the rows with a score, highest first (stable)
InsertByScore(sorted, r) ==
    LET k == Cardinality({i \in DOMAIN sorted :
                             sorted[i].numericScore.v >= r.numericScore.v})
    IN  SubSeq(sorted, 1, k) \o <<r>> \o SubSeq(sorted, k + 1, Len(sorted))

RECURSIVE SortByScore(_)
SortByScore(rows) ==
    IF rows = <<>> THEN <<>>
    ELSE InsertByScore(SortByScore(SubSeq(rows, 1, Len(rows) - 1)),
                       rows[Len(rows)])

SortedForLeaderboard(processed) ==
    SortByScore(SelectSeq(processed, LAMBDA r : r.numericScore.kind = "num"))

LeaderboardTable(evals) ==
    LET memo == ProcessEvaluations(evals)
    IN  [sortedEvaluations |-> memo.sortedEvaluations,
         processedEvaluations |-> memo.processedEvaluations,
         cumulativeBest |-> memo.cumulativeBest,
         sortedForLeaderboard |->
             IF evals = <<>> THEN <<>>
             ELSE SortedForLeaderboard(memo.processedEvaluations),
         showChart |-> \E i \in DOMAIN memo.cumulativeBest :
                          memo.cumulativeBest[i].year > 1900]

\* LeaderboardChart: a.date ? new Date(a.date).getTime() : 0
EpochTime == GetTime(NewDate(Iso(1970, 1, 1)))
NaNTime(e) == ~Falsy(e.date) /\ NewDate(e.date).nan
ChartKey(e) == IF Falsy(e.date) THEN EpochTime ELSE GetTime(NewDate(e.date))

InsertByTime(sorted, e) ==
    LET k == Cardinality({i \in DOMAIN sorted : ChartKey(sorted[i]) <= ChartKey(e)})
    IN  SubSeq(sorted, 1, k) \o <<e>> \o SubSeq(sorted, k + 1, Len(sorted))

RECURSIVE SortByTime(_)
SortByTime(evals) ==
    IF evals = <<>> THEN <<>>
    ELSE InsertByTime(SortByTime(SubSeq(evals, 1, Len(evals) - 1)),
                      evals[Len(evals)])

Orderings(evals) ==
    { [i \in DOMAIN evals |-> evals[p[i]]] :
        p \in {q \in [DOMAIN evals -> DOMAIN evals] :
                  \A i, j \in DOMAIN evals : i # j => q[i] # q[j]} }

\* The orders the sort can leave the evaluations in.  With an unparsable
\* date the comparator returns NaN and is no consistent order: the result is
\* then whatever the engine's sort makes of it.
ChartOrders(evals) ==
    IF \E i \in DOMAIN evals : NaNTime(evals[i])
    THEN Orderings(evals)
    ELSE {SortByTime(evals)}

\* the milestone points: a jump of more than 2%, or every 10th point
RECURSIVE TopPerformersFrom(_, _, _, _, _)
TopPerformersFrom(valid, i, lastBestValue, primaryMetric, out) ==
    IF i > Len(valid) THEN out
    ELSE LET evaluation == valid[i]
             index == i - 1
         IN  IF ~primaryMetric \/ evaluation.score.kind # "num"
             THEN TopPerformersFrom(valid, i + 1, lastBestValue, primaryMetric, out)
             ELSE LET numValue == evaluation.score
                      jump == \/ lastBestValue.kind = "-inf"
                              \/ 100 * numValue.v > 102 * lastBestValue.v
                  IN  IF jump \/ index % 10 = 0
                      THEN TopPerformersFrom(valid, i + 1,
                               IF Exceeds(numValue, lastBestValue)
                               THEN numValue ELSE lastBestValue,
                               primaryMetric,
                               Append(out, [date |-> NewDate(evaluation.date),
                                            value |-> numValue,
                                            id |-> evaluation.id]))
                      ELSE TopPerformersFrom(valid, i + 1, lastBestValue,
                                             primaryMetric, out)

NoChart == [null |-> TRUE]

\* the useMemo of LeaderboardChart, for one outcome of its sort
ChartData(evals, sortedEvaluations) ==
    LET validEvaluations ==
            SelectSeq(sortedEvaluations, LAMBDA e : ~Falsy(e.date))
        primaryMetric == evals # <<>> /\ evals[1].score.kind # "nometrics"
    IN  IF evals = <<>> \/ validEvaluations = <<>> THEN NoChart
        ELSE [null |-> FALSE,
              validEvaluations |-> validEvaluations,
              labels |-> [i \in DOMAIN validEvaluations |->
                             NewDate(validEvaluations[i].date)],
              backgroundData |->
                  [i \in DOMAIN validEvaluations |->
                      IF primaryMetric /\ validEvaluations[i].score.kind = "num"
                      THEN validEvaluations[i].score ELSE NotComputed],
              topPerformers |->
                  TopPerformersFrom(validEvaluations, 1, MinusInfinity,
                                    primaryMetric, <<>>)]

-----------------------------------------------------------------------------
(* API server: server.js, the leaderboard *)

\* the collation of the paper URLs of the model
UrlRank(u) == IF u = "u1" THEN 1 ELSE IF u = "u2" THEN 2 ELSE 3

\* what an async function gives its caller: a value, or a thrown error
Resolved(v) == [threw |-> FALSE, value |-> v]
Thrown == [threw |-> TRUE]

\* the rows of `papers` joined with tasks and datasets that match, newest
\* first (ORDER BY p.paper_date DESC)
MatchingResults(db, dataset, task) ==
    LET ids == {i \in DOMAIN db : db[i].task = task /\ db[i].dataset = dataset}
        Newer(i) == Cardinality({j \in ids : db[j].date > db[i].date})
    IN  [k \in 1..Cardinality(ids) |-> CHOOSE i \in ids : Newer(i) = k - 1]

\* getEvaluationResults: one query for the papers and one for the metrics of
\* each; failAt is the query that fails, 0 when none does
getEvaluationResults(db, dataset, task, failAt) ==
    LET results == MatchingResults(db, dataset, task)
    IN  IF failAt \in 1..(Len(results) + 1) THEN Thrown
        ELSE Resolved([k \in DOMAIN results |->
                          [id |-> results[k], task |-> task, dataset |-> dataset,
                           metrics |-> db[results[k]].metric,
                           date |-> db[results[k]].date]])

\* evaluations.sort((a, b) => (b.metrics[m] || 0) - (a.metrics[m] || 0))
InsertByMetric(sorted, e) ==
    LET k == Cardinality({i \in DOMAIN sorted : sorted[i].metrics >= e.metrics})
    IN  SubSeq(sorted, 1, k) \o <<e>> \o SubSeq(sorted, k + 1, Len(sorted))

RECURSIVE SortByMetric(_)
SortByMetric(evals) ==
    IF evals = <<>> THEN <<>>
    ELSE InsertByMetric(SortByMetric(SubSeq(evals, 1, Len(evals) - 1)),
                        evals[Len(evals)])

\* sorted by the first metric of the first evaluation, when it has one
SortedByFirstMetric(evals) ==
    IF evals # <<>> /\ evals[1].metrics # 0 THEN SortByMetric(evals) ELSE evals

\* getLeaderboard without its try/catch
getLeaderboardUncaught(db, dataset, task, failAt) ==
    LET results == getEvaluationResults(db, dataset, task, failAt)
    IN  IF results.threw THEN results
        ELSE Resolved(SortedByFirstMetric(results.value))

getLeaderboard(db, dataset, task, failAt) ==
    LET results == getEvaluationResults(db, dataset, task, failAt)
    IN  IF results.threw THEN Resolved(<<>>)
        ELSE Resolved(SortedByFirstMetric(results.value))

\* getCodeLinksForPapers: WHERE cl.paper_url IN (...) ORDER BY cl.paper_url,
\* cl.id; the URLs of the model sort as their rows are numbered
getCodeLinksForPapers(links, paperUrls) ==
    IF paperUrls = <<>> THEN <<>>
    ELSE LET wanted == {paperUrls[i] : i \in DOMAIN paperUrls}
             ids == {i \in DOMAIN links : links[i].paper_url \in wanted}
             Before(i) ==
                 Cardinality({j \in ids :
                    \/ UrlRank(links[j].paper_url) < UrlRank(links[i].paper_url)
                    \/ /\ links[j].paper_url = links[i].paper_url
                       /\ j < i})
         IN  [k \in 1..Cardinality(ids) |->
                 links[CHOOSE i \in ids : Before(i) = k - 1]]

\* PapersPage: the URLs of the papers shown, without the missing ones
PaperUrlsOf(shown) ==
    LET withUrl == SelectSeq(shown, LAMBDA paper : paper.paper_url # Null)
    IN  [i \in DOMAIN withUrl |-> withUrl[i].paper_url]

\* PapersPage: the code links of a card, the first link of every repository
paperCodeLinks(codeLinks, paper) ==
    LET mine == SelectSeq(codeLinks,
                          LAMBDA link : link.paper_url = paper.paper_url)
        first == {i \in DOMAIN mine :
                    \A j \in 1..(i - 1) : mine[j].repo_url # mine[i].repo_url}
    IN  [k \in 1..Cardinality(first) |->
            mine[CHOOSE i \in first :
                    Cardinality({j \in first : j < i}) = k - 1]]

PaperCards(links, shown) ==
    LET codeLinks == getCodeLinksForPapers(links, PaperUrlsOf(shown))
    IN  [i \in DOMAIN shown |->
            [paper |-> shown[i],
             codeLinks |-> paperCodeLinks(codeLinks, shown[i])]]

-----------------------------------------------------------------------------
(* The source collections *)

NLP == "Natural Language Processing"
CV == "Computer Vision"
General == "General"

SourceDates ==
    { Date(2021, 3, 1), Date(2222, 12, 22), Date(1850, 1, 1),
      Date(CurrentYear + 4, 1, 1), Date(CurrentYear + 1, 6, 12), NullDate }

\* an element of a raw author list: a plain name string, or a structured
\* name object
Plain(n) == [str |-> n]
Structured(n) == [name |-> n]

BasePaper(u) ==
    [url |-> u, abstract |-> "x", date |-> Date(2019, 6, 12),
     authors |-> <<Plain("a1")>>, tasks |-> <<"t1">>, methods |-> <<"m1">>]

PaperRecs ==
    {[BasePaper(u) EXCEPT !.abstract = ab] : u \in {"u1", "u2"}, ab \in {"x", "y"}}
    \cup {[BasePaper("u2") EXCEPT !.date = d] : d \in SourceDates}
    \cup {[BasePaper("u1") EXCEPT !.authors = as] :
            as \in {<<>>, <<Plain("a1"), Plain("a2")>>,
                    <<Structured("a2"), Structured("a1")>>}}
    \cup {[BasePaper("u2") EXCEPT !.methods = ms, !.tasks = <<>>] :
            ms \in {<<>>, <<"m9">>, <<"m1", "m9">>}}
    \cup {BasePaper(Null)}

MethodRecs ==
    {[url |-> u, name |-> "n", categories |-> s[1], area |-> s[2]] :
        u \in {"m1", "m2"},
        s \in { <<<<>>, NLP>>,
                <<<<"Transformers">>, NLP>>,
                <<<<"Transformers">>, CV>>,
                <<<<"Transformers", "Convolutional Neural Networks">>, CV>>,
                <<<<"Mystery Models">>, CV>> }}
    \cup {[url |-> Null, name |-> "n", categories |-> <<"Transformers">>, area |-> NLP],
          [url |-> "m2", name |-> "n", categories |-> <<Null>>, area |-> NLP]}

DatasetRecs ==
    {[url |-> u, name |-> n] : u \in {"d1", "d2", Null}, n \in {"n1", "n2"}}

CodeLinkRecs ==
    {[paper_url |-> "u1", paper_title |-> t, repo_url |-> r, is_official |-> TRUE] :
        t \in {"T1", Null}, r \in {"r1", "r2", Null}}
    \cup {[paper_url |-> "u9", paper_title |-> "T1", repo_url |-> "r1",
           is_official |-> FALSE]}

DefaultPapers == <<BasePaper("u1")>>
DefaultCodeLinks ==
    <<[paper_url |-> "u1", paper_title |-> "T1", repo_url |-> "r1",
       is_official |-> TRUE]>>
DefaultMethods ==
    <<[url |-> "m1", name |-> "n", categories |-> <<"Transformers">>, area |-> NLP]>>
DefaultDatasets == <<[url |-> "d1", name |-> "n1"]>>

FilesOf(S) == UNION {[1..n -> S] : n \in 1..MaxRecs}

-----------------------------------------------------------------------------
(* Tables *)

\* the id of the row with natural key k, 0 when there is none
KeyId(tbl, k) ==
    IF \E i \in DOMAIN tbl : tbl[i].key = k
    THEN CHOOSE i \in DOMAIN tbl :
            tbl[i].key = k /\ \A j \in DOMAIN tbl : tbl[j].key = k => i <= j
    ELSE 0

Keys(tbl) == {tbl[i].key : i \in DOMAIN tbl}

\* INSERT OR IGNORE into a table whose natural key is UNIQUE
InsertOrAppend(tbl, row) == Append(tbl, row)
InsertOrReplace(tbl, row) ==
    IF KeyId(tbl, row.key) # 0
    THEN [tbl EXCEPT ![KeyId(tbl, row.key)] = row]
    ELSE Append(tbl, row)
InsertOrIgnore(tbl, row) ==
    IF KeyId(tbl, row.key) # 0 THEN tbl ELSE Append(tbl, row)

\* the write-log entries of the rows a step added to table t
NewRows(t, old, new) ==
    [i \in 1..(Len(new) - Len(old)) |->
        [tbl |-> t, id |-> Len(old) + i, l |-> 0, r |-> 0, run |-> run]]


-----------------------------------------------------------------------------
(* Entity Interner *)

EmptyCache == [authors |-> <<>>, tasks |-> <<>>, categories |-> <<>>]

\* the (key -> id) pairs of a table already in the store
PreloadNone(tbl) == <<>>
Preload(tbl) == [k \in Keys(tbl) |-> KeyId(tbl, k)]

CachedId(c, k) == IF k \in DOMAIN c THEN c[k] ELSE 0

\* Intern one natural key: a cached key gives its id and writes nothing, a new
\* key takes the next surrogate id and writes one row.
InternNoCache(c, tbl, row) ==
    [cache |-> c @@ (row.key :> Len(tbl) + 1), tbl |-> Append(tbl, row)]
Intern(c, tbl, row) ==
    IF row.key \in DOMAIN c
    THEN [cache |-> c, tbl |-> tbl]
    ELSE [cache |-> c @@ (row.key :> Len(tbl) + 1),
          tbl |-> InsertOrIgnore(tbl, row)]

RECURSIVE InternAll(_, _, _)
InternAll(c, tbl, keys) ==
    IF keys = <<>> THEN [cache |-> c, tbl |-> tbl]
    ELSE LET r == Intern(c, tbl, [key |-> Head(keys)])
         IN  InternAll(r.cache, r.tbl, Tail(keys))

-----------------------------------------------------------------------------
(* Hierarchy Builder *)

AreaNames == {General, CV, NLP}

\* the classification table: category name -> area, General when not listed
ClassifyArea(name) ==
    CASE name = "Transformers" -> NLP
      [] name = "Convolutional Neural Networks" -> CV
      [] name = "Attention Mechanisms" -> General
      [] OTHER -> General

\* Bind one category label of a method record whose own area is `hint`.
BindCategoryLastWins(c, cats, areas, name, hint) ==
    LET as == InsertOrIgnore(areas, [key |-> hint])
        row == [key |-> name, area_id |-> KeyId(as, hint)]
    IN  [cache |-> IF name \in DOMAIN c THEN c ELSE c @@ (name :> Len(cats) + 1),
         cats |-> InsertOrReplace(cats, row), areas |-> as]
BindCategory(c, cats, areas, name, hint) ==
    IF name \in DOMAIN c
    THEN [cache |-> c, cats |-> cats, areas |-> areas]
    ELSE LET area == ClassifyArea(name)
             as == InsertOrIgnore(areas, [key |-> area])
             r == Intern(c, cats, [key |-> name, area_id |-> KeyId(as, area)])
         IN  [cache |-> r.cache, cats |-> r.tbl, areas |-> as]

\* the labels of a record that can be resolved: a blank label names nothing
LabelsKeepBlank(names) == names
Labels(names) == SelectSeq(names, LAMBDA n : n # Null)

RECURSIVE BindAll(_, _, _, _, _)
BindAll(c, cats, areas, names, hint) ==
    IF names = <<>> THEN [cache |-> c, cats |-> cats, areas |-> areas]
    ELSE LET b == BindCategory(c, cats, areas, Head(names), hint)
         IN  BindAll(b.cache, b.cats, b.areas, Tail(names), hint)

-----------------------------------------------------------------------------
(* Record Normalizer *)

\* a record without its natural key is rejected
RejectedNever(rec) == FALSE
Rejected(rec) == rec.url = Null

PaperRow(rec) ==
    [key |-> rec.url, abstract |-> rec.abstract, date |-> StoredDate(rec.date)]
MethodRow(rec) == [key |-> rec.url, name |-> rec.name]

\* the flat ordered list of names of a raw author list, of either form
AuthorName(e) == IF "name" \in DOMAIN e THEN e.name ELSE e.str
AuthorNames(list) == [i \in DOMAIN list |-> AuthorName(list[i])]

\* the names a record lists under a field
FlatNames(rec, field) ==
    IF field = "authors" THEN AuthorNames(rec[field]) ELSE rec[field]
DatasetRow(rec) == [key |-> rec.url, name |-> rec.name]

\* a code link's natural key is its paper title with its repository URL
RejectedLink(rec) == rec.paper_title = Null \/ rec.repo_url = Null

CodeLinkRow(rec) ==
    [key |-> <<rec.paper_title, rec.repo_url>>, paper_url |-> rec.paper_url,
     is_official |-> rec.is_official]

-----------------------------------------------------------------------------
(* Load Orchestrator: counters and phases *)

TableNames ==
    {"papers", "authors", "tasks", "methods", "method_areas",
     "method_categories", "datasets", "code_links", "paper_authors", "paper_tasks",
     "paper_methods", "method_categories_rel"}

ZeroStats ==
    [attempted |-> [t \in TableNames |-> 0],
     rejected |-> [t \in TableNames |-> 0],
     committed |-> [t \in TableNames |-> 0]]

RowCounts ==
    [t \in TableNames |->
        CASE t = "papers" -> Len(papers)
          [] t = "authors" -> Len(authors)
          [] t = "tasks" -> Len(tasks)
          [] t = "methods" -> Len(methods)
          [] t = "method_areas" -> Len(method_areas)
          [] t = "method_categories" -> Len(method_categories)
          [] t = "datasets" -> Len(datasets)
          [] t = "code_links" -> Len(code_links)
          [] t = "paper_authors" -> Len(paper_authors)
          [] t = "paper_tasks" -> Len(paper_tasks)
          [] t = "paper_methods" -> Len(paper_methods)
          [] t = "method_categories_rel" -> Len(method_categories_rel)]

\* entity collections first, relationship tables after them
PhaseOrderRelFirst ==
    <<"relationships", "methods", "datasets", "code_links", "papers">>
PhaseOrder == <<"methods", "datasets", "code_links", "papers", "relationships">>

PhaseIndex(p) == CHOOSE i \in DOMAIN PhaseOrder : PhaseOrder[i] = p
FirstPhase == PhaseOrder[1]
NextPhaseOf(p) ==
    IF PhaseIndex(p) < Len(PhaseOrder) THEN PhaseOrder[PhaseIndex(p) + 1]
    ELSE "index"

FileOf(p) ==
    CASE p = "methods" -> methodsFile
      [] p = "datasets" -> datasetsFile
      [] p = "code_links" -> codeLinksFile
      [] p = "papers" -> papersFile
      [] OTHER -> <<>>

\* what a call has returned, if it was made
Uncalled == [called |-> FALSE]
Returned(v) == [called |-> TRUE, value |-> v]

\* no page of the frontend is open
NoPage ==
    /\ dateString = Undefined
    /\ today = Date(CurrentYear, 11, 3)
    /\ tzWest = FALSE
    /\ validOut = Uncalled
    /\ formatOut = Uncalled
    /\ yearOut = Uncalled
    /\ evaluations = <<>>
    /\ table = Uncalled
    /\ chart = Uncalled

\* the API server is not running
NoServer ==
    /\ evaluationDb = <<>>
    /\ leaderboard = Uncalled
    /\ cards = Uncalled

\* no component uses a data hook
NoParams == [none |-> TRUE]
NoHook ==
    /\ hook = "usePapers"
    /\ params = NoParams
    /\ inflight = {}
    /\ issued = 0
    /\ failed = {}
    /\ held = [id |-> 0, params |-> NoParams]
    /\ loading = TRUE
    /\ error = Null

\* the API client has fetched nothing
NoEvent == [kind |-> "none"]
NoClient ==
    /\ urlCache = {}
    /\ loadingPromises = {}
    /\ activeLoads = {}
    /\ started = 0
    /\ calls = 0
    /\ lastEvent = NoEvent

\* the server has answered no listing request
NoListing ==
    /\ responseCache = {}
    /\ clock = 0
    /\ pending = {}
    /\ asked = 0
    /\ response = NoEvent

\* usePapers has no result yet
NoPagination == [none |-> TRUE]

\* the page list is not on the screen
NotRendered == [rendered |-> FALSE]

\* the papers page is not mounted
NoPager ==
    /\ currentPage = 1
    /\ pageSize = 20
    /\ searchQuery = ""
    /\ pagination = NoPagination
    /\ papersLoading = TRUE
    /\ papersError = Null
    /\ fetching = {}
    /\ pageNumbers = NotRendered

\* nothing but the load and the page under study is active
Quiet == NoServer /\ NoHook /\ NoClient /\ NoListing /\ NoPager

\* a new store, and an orchestrator that has not started
FreshStore ==
    /\ code_links = <<>>
    /\ papers = <<>> /\ authors = <<>> /\ tasks = <<>> /\ methods = <<>>
    /\ method_areas = <<>> /\ method_categories = <<>> /\ datasets = <<>>
    /\ paper_authors = <<>> /\ paper_tasks = <<>> /\ paper_methods = <<>>
    /\ method_categories_rel = <<>>
    /\ cache = EmptyCache
    /\ pc = "start"
    /\ cursor = 1
    /\ relTable = 1
    /\ batchNo = 1
    /\ run = 1
    /\ indexes = {}
    /\ wlog = <<>>
    /\ batchlog = <<>>
    /\ stats = ZeroStats
    /\ summaries = <<>>

Init ==
    /\ \/ /\ papersFile \in FilesOf(PaperRecs)
          /\ methodsFile = DefaultMethods
          /\ datasetsFile = DefaultDatasets
          /\ codeLinksFile = DefaultCodeLinks
       \/ /\ papersFile = DefaultPapers
          /\ methodsFile \in FilesOf(MethodRecs)
          /\ datasetsFile = DefaultDatasets
          /\ codeLinksFile = DefaultCodeLinks
       \/ /\ papersFile = DefaultPapers
          /\ methodsFile = DefaultMethods
          /\ datasetsFile \in FilesOf(DatasetRecs)
          /\ codeLinksFile = DefaultCodeLinks
       \/ /\ papersFile = DefaultPapers
          /\ methodsFile = DefaultMethods
          /\ datasetsFile = DefaultDatasets
          /\ codeLinksFile \in FilesOf(CodeLinkRecs)
    /\ missing = {}
    /\ targetOk = TRUE
    /\ FreshStore
    /\ NoPage
    /\ Quiet

\* Every source file is there and the target store is accessible.
ConfigUnchecked == TRUE
ConfigOk == missing = {} /\ targetOk

\* Run start: the interner is reconciled with the rows already in the store.
Startup ==
    /\ pc = "start"
    /\ ConfigOk
    /\ cache' = [authors |-> Preload(authors), tasks |-> Preload(tasks),
                 categories |-> Preload(method_categories)]
    /\ pc' = FirstPhase
    /\ cursor' = 1
    /\ relTable' = 1
    /\ batchNo' = 1
    /\ stats' = ZeroStats
    /\ UNCHANGED <<sources, config, view, entityTables, junctionTables, run, indexes, wlog,
                   batchlog, summaries>>

Bump(s, field, t, n) == [s EXCEPT ![field][t] = @ + n]

\* One record of methods.json: the method row, then its categories and areas.
LoadMethod ==
    /\ pc = "methods"
    /\ targetOk
    /\ cursor <= Len(methodsFile)
    /\ LET rec == methodsFile[cursor]
           m == InsertOrIgnore(methods, MethodRow(rec))
           b == BindAll(cache.categories, method_categories, method_areas,
                        Labels(rec.categories), rec.area)
       IN  IF Rejected(rec)
           THEN /\ stats' = Bump(Bump(stats, "attempted", "methods", 1),
                                 "rejected", "methods", 1)
                /\ UNCHANGED <<methods, method_categories, method_areas, cache, wlog>>
           ELSE /\ methods' = m
                /\ method_categories' = b.cats
                /\ method_areas' = b.areas
                /\ cache' = [cache EXCEPT !.categories = b.cache]
                /\ wlog' = wlog \o NewRows("methods", methods, m)
                                \o NewRows("method_areas", method_areas, b.areas)
                                \o NewRows("method_categories", method_categories, b.cats)
                /\ stats' = Bump(Bump(Bump(Bump(stats, "attempted", "methods", 1),
                                 "committed", "methods", Len(m) - Len(methods)),
                                 "committed", "method_categories",
                                 Len(b.cats) - Len(method_categories)),
                                 "committed", "method_areas",
                                 Len(b.areas) - Len(method_areas))
    /\ cursor' = cursor + 1
    /\ UNCHANGED <<sources, config, view, papers, authors, tasks, datasets, code_links,
                   junctionTables, pc, relTable, batchNo, run, indexes,
                   batchlog, summaries>>

\* One record of datasets.json.
LoadDataset ==
    /\ pc = "datasets"
    /\ targetOk
    /\ cursor <= Len(datasetsFile)
    /\ LET rec == datasetsFile[cursor]
           d == InsertOrIgnore(datasets, DatasetRow(rec))
       IN  IF Rejected(rec)
           THEN /\ stats' = Bump(Bump(stats, "attempted", "datasets", 1),
                                 "rejected", "datasets", 1)
                /\ UNCHANGED <<datasets, wlog>>
           ELSE /\ datasets' = d
                /\ wlog' = wlog \o NewRows("datasets", datasets, d)
                /\ stats' = Bump(Bump(stats, "attempted", "datasets", 1),
                                 "committed", "datasets", Len(d) - Len(datasets))
    /\ cursor' = cursor + 1
    /\ UNCHANGED <<sources, config, view, papers, authors, tasks, methods, method_areas,
                   method_categories, code_links, junctionTables, cache, pc,
                   relTable, batchNo, run, indexes, batchlog, summaries>>

\* One record of the code-links collection.
LoadCodeLink ==
    /\ pc = "code_links"
    /\ targetOk
    /\ cursor <= Len(codeLinksFile)
    /\ LET rec == codeLinksFile[cursor]
           c == InsertOrIgnore(code_links, CodeLinkRow(rec))
       IN  IF RejectedLink(rec)
           THEN /\ stats' = Bump(Bump(stats, "attempted", "code_links", 1),
                                 "rejected", "code_links", 1)
                /\ UNCHANGED <<code_links, wlog>>
           ELSE /\ code_links' = c
                /\ wlog' = wlog \o NewRows("code_links", code_links, c)
                /\ stats' = Bump(Bump(stats, "attempted", "code_links", 1),
                                 "committed", "code_links", Len(c) - Len(code_links))
    /\ cursor' = cursor + 1
    /\ UNCHANGED <<sources, config, view, papers, authors, tasks, methods, method_areas,
                   method_categories, datasets, junctionTables, cache, pc,
                   relTable, batchNo, run, indexes, batchlog, summaries>>

\* One record of papers.json: the paper row, then its authors and tasks,
\* created the first time a paper names them.
LoadPaper ==
    /\ pc = "papers"
    /\ targetOk
    /\ cursor <= Len(papersFile)
    /\ LET rec == papersFile[cursor]
           p == InsertOrIgnore(papers, PaperRow(rec))
           a == InternAll(cache.authors, authors, AuthorNames(rec.authors))
           t == InternAll(cache.tasks, tasks, rec.tasks)
       IN  IF Rejected(rec)
           THEN /\ stats' = Bump(Bump(stats, "attempted", "papers", 1),
                                 "rejected", "papers", 1)
                /\ UNCHANGED <<papers, authors, tasks, cache, wlog>>
           ELSE /\ papers' = p
                /\ authors' = a.tbl
                /\ tasks' = t.tbl
                /\ cache' = [cache EXCEPT !.authors = a.cache, !.tasks = t.cache]
                /\ wlog' = wlog \o NewRows("papers", papers, p)
                                \o NewRows("authors", authors, a.tbl)
                                \o NewRows("tasks", tasks, t.tbl)
                /\ stats' = Bump(Bump(Bump(Bump(stats, "attempted", "papers", 1),
                                 "committed", "papers", Len(p) - Len(papers)),
                                 "committed", "authors", Len(a.tbl) - Len(authors)),
                                 "committed", "tasks", Len(t.tbl) - Len(tasks))
    /\ cursor' = cursor + 1
    /\ UNCHANGED <<sources, config, view, methods, method_areas, method_categories, datasets,
                   code_links, junctionTables, pc, relTable, batchNo, run,
                   indexes, batchlog, summaries>>

\* The current collection is consumed: go on to the next phase.
NextPhase ==
    /\ pc \in {"methods", "datasets", "code_links", "papers"}
    /\ targetOk
    /\ cursor > Len(FileOf(pc))
    /\ pc' = NextPhaseOf(pc)
    /\ cursor' = 1
    /\ UNCHANGED <<sources, config, view, entityTables, junctionTables, cache, relTable,
                   batchNo, run, indexes, wlog, batchlog, stats, summaries>>

-----------------------------------------------------------------------------
(* Relational Writer: the relationship tables *)

RelTables == <<"paper_authors", "paper_tasks", "paper_methods",
               "method_categories_rel">>

RECURSIVE Flatten(_)
Flatten(ss) == IF ss = <<>> THEN <<>> ELSE Head(ss) \o Flatten(Tail(ss))

\* the links one record contributes: (record key, referenced key, position)
LinksOf(file, k, field) ==
    IF Rejected(file[k]) THEN <<>>
    ELSE LET names == Labels(FlatNames(file[k], field))
         IN  [j \in DOMAIN names |->
                [offset |-> k, l |-> file[k].url, r |-> names[j], ord |-> j]]

\* the relationship rows of a table, in source order
Candidates(t) ==
    CASE t = "paper_authors" ->
            Flatten([k \in DOMAIN papersFile |-> LinksOf(papersFile, k, "authors")])
      [] t = "paper_tasks" ->
            Flatten([k \in DOMAIN papersFile |-> LinksOf(papersFile, k, "tasks")])
      [] t = "paper_methods" ->
            Flatten([k \in DOMAIN papersFile |-> LinksOf(papersFile, k, "methods")])
      [] t = "method_categories_rel" ->
            Flatten([k \in DOMAIN methodsFile |-> LinksOf(methodsFile, k, "categories")])

SourceFileOf(t) == IF t = "method_categories_rel" THEN "methods.json" ELSE "papers.json"

NumBatches(t) == (Len(Candidates(t)) + BatchSize - 1) \div BatchSize

BatchOf(t, b) ==
    LET c == Candidates(t)
        first == (b - 1) * BatchSize + 1
        last == IF b * BatchSize < Len(c) THEN b * BatchSize ELSE Len(c)
    IN  SubSeq(c, first, last)

LeftTable(t) == IF t = "method_categories_rel" THEN methods ELSE papers
RightTable(t) ==
    CASE t = "paper_authors" -> authors
      [] t = "paper_tasks" -> tasks
      [] t = "paper_methods" -> methods
      [] t = "method_categories_rel" -> method_categories

\* the junction row of a link: both keys resolved to ids, 0 when unresolved
ResolveLinkByInsertion(t, link) ==
    [l |-> KeyId(LeftTable(t), link.l),
     r |-> CASE t = "paper_authors" -> CachedId(cache.authors, link.r)
             [] t = "paper_tasks" -> CachedId(cache.tasks, link.r)
             [] t = "paper_methods" -> KeyId(methods, link.r)
             [] t = "method_categories_rel" -> CachedId(cache.categories, link.r),
     ord |-> CASE t = "paper_authors" -> CachedId(cache.authors, link.r)
               [] OTHER -> link.ord]
ResolveLink(t, link) ==
    [l |-> KeyId(LeftTable(t), link.l),
     r |-> CASE t = "paper_authors" -> CachedId(cache.authors, link.r)
             [] t = "paper_tasks" -> CachedId(cache.tasks, link.r)
             [] t = "paper_methods" -> KeyId(methods, link.r)
             [] t = "method_categories_rel" -> CachedId(cache.categories, link.r),
     ord |-> link.ord]

\* FOREIGN KEY (left) REFERENCES left (id), FOREIGN KEY (right) REFERENCES right (id)
ForeignKeysUnchecked(t, row) == TRUE
ForeignKeysHold(t, row) ==
    /\ row.l \in DOMAIN LeftTable(t)
    /\ row.r \in DOMAIN RightTable(t)

\* insert if the (left id, right id) pair is absent
InsertPair(tbl, row) ==
    IF \E i \in DOMAIN tbl : tbl[i].l = row.l /\ tbl[i].r = row.r
    THEN tbl ELSE Append(tbl, row)

RECURSIVE InsertPairs(_, _)
InsertPairs(tbl, rows) ==
    IF rows = <<>> THEN tbl
    ELSE InsertPairs(InsertPair(tbl, Head(rows)), Tail(rows))

BatchOk(t, rows) == \A i \in DOMAIN rows : ForeignKeysHold(t, rows[i])

\* the position in the batch of the first row that violates a constraint
FirstBad(t, rows) ==
    IF BatchOk(t, rows) THEN 0
    ELSE CHOOSE i \in DOMAIN rows :
            /\ ~ForeignKeysHold(t, rows[i])
            /\ \A j \in DOMAIN rows : ~ForeignKeysHold(t, rows[j]) => i <= j

\* One transaction: every row of the batch, or none when a row fails.
CommitBatchPartial(t, tbl, rows) ==
    IF BatchOk(t, rows) THEN InsertPairs(tbl, rows)
    ELSE InsertPairs(tbl, SubSeq(rows, 1, FirstBad(t, rows) - 1))
CommitBatch(t, tbl, rows) ==
    IF BatchOk(t, rows) THEN InsertPairs(tbl, rows) ELSE tbl

Junction(t) ==
    CASE t = "paper_authors" -> paper_authors
      [] t = "paper_tasks" -> paper_tasks
      [] t = "paper_methods" -> paper_methods
      [] t = "method_categories_rel" -> method_categories_rel

NewLinks(t, old, new) ==
    [i \in 1..(Len(new) - Len(old)) |->
        [tbl |-> t, id |-> 0, l |-> new[Len(old) + i].l,
         r |-> new[Len(old) + i].r, run |-> run]]

\* One batch of the current relationship table.
WriteBatch ==
    /\ pc = "relationships"
    /\ targetOk
    /\ relTable <= Len(RelTables)
    /\ batchNo <= NumBatches(RelTables[relTable])
    /\ LET t == RelTables[relTable]
           links == BatchOf(t, batchNo)
           rows == [i \in DOMAIN links |-> ResolveLink(t, links[i])]
           old == Junction(t)
           new == CommitBatch(t, old, rows)
           ok == BatchOk(t, rows)
           bad == FirstBad(t, rows)
       IN  /\ paper_authors' = IF t = "paper_authors" THEN new ELSE paper_authors
           /\ paper_tasks' = IF t = "paper_tasks" THEN new ELSE paper_tasks
           /\ paper_methods' = IF t = "paper_methods" THEN new ELSE paper_methods
           /\ method_categories_rel' =
                IF t = "method_categories_rel" THEN new ELSE method_categories_rel
           /\ wlog' = wlog \o NewLinks(t, old, new)
           /\ batchlog' = Append(batchlog,
                [run |-> run, tbl |-> t, batch |-> batchNo, ok |-> ok,
                 file |-> SourceFileOf(t),
                 offset |-> IF ok THEN links[1].offset ELSE links[bad].offset,
                 size |-> Len(rows), before |-> Len(old), after |-> Len(new)])
           /\ stats' = Bump(Bump(stats, "attempted", t, Len(rows)),
                            "committed", t, Len(new) - Len(old))
    /\ batchNo' = batchNo + 1
    /\ UNCHANGED <<sources, config, view, entityTables, cache, pc, cursor, relTable, run,
                   indexes, summaries>>

\* Every batch of the current relationship table is written: the next table.
NextRelTable ==
    /\ pc = "relationships"
    /\ targetOk
    /\ relTable <= Len(RelTables)
    /\ batchNo > NumBatches(RelTables[relTable])
    /\ relTable' = relTable + 1
    /\ batchNo' = 1
    /\ UNCHANGED <<sources, config, view, entityTables, junctionTables, cache, pc, cursor,
                   run, indexes, wlog, batchlog, stats, summaries>>

RelationshipsDone ==
    /\ pc = "relationships"
    /\ targetOk
    /\ relTable > Len(RelTables)
    /\ pc' = NextPhaseOf(pc)
    /\ UNCHANGED <<sources, config, view, entityTables, junctionTables, cache, cursor,
                   relTable, batchNo, run, indexes, wlog, batchlog, stats,
                   summaries>>

-----------------------------------------------------------------------------
(* Finalization *)

SecondaryIndexes ==
    {"papers.arxiv_id", "papers.title", "papers.date", "authors.name",
     "tasks.name", "methods.name", "methods.url", "datasets.name",
     "datasets.url", "code_links.paper_url", "code_links.repo_url"}

\* CREATE INDEX, once the tables are loaded
BuildIndexesWithTables ==
    /\ pc = FirstPhase
    /\ targetOk
    /\ indexes = {}
    /\ indexes' = SecondaryIndexes
    /\ UNCHANGED <<sources, config, view, entityTables, junctionTables, cache, pc,
                   cursor, relTable, batchNo, run, wlog, batchlog, stats,
                   summaries>>
BuildIndexes ==
    /\ pc = "index"
    /\ targetOk
    /\ indexes' = SecondaryIndexes
    /\ pc' = "summary"
    /\ UNCHANGED <<sources, config, view, entityTables, junctionTables, cache, cursor,
                   relTable, batchNo, run, wlog, batchlog, stats, summaries>>

ReportSummary ==
    /\ pc = "summary"
    /\ targetOk
    /\ summaries' = Append(summaries, [run |-> run, rows |-> RowCounts, stats |-> stats])
    /\ pc' = "done"
    /\ UNCHANGED <<sources, config, view, entityTables, junctionTables, cache, cursor,
                   relTable, batchNo, run, indexes, wlog, batchlog, stats>>

\* The loader is run again on the same source files and the same store: its
\* interner starts empty and is reconciled with the store at startup.
Rerun ==
    /\ pc \in {"done", "aborted", "killed", "failed"}
    /\ run < MaxRuns
    /\ run' = run + 1
    /\ pc' = "start"
    /\ cache' = EmptyCache
    /\ UNCHANGED <<sources, config, view, entityTables, junctionTables, cursor, relTable,
                   batchNo, indexes, wlog, batchlog, stats, summaries>>

Next ==
    \/ Startup
    \/ LoadMethod
    \/ LoadDataset
    \/ LoadCodeLink
    \/ LoadPaper
    \/ NextPhase
    \/ WriteBatch
    \/ NextRelTable
    \/ RelationshipsDone
    \/ BuildIndexes
    \/ ReportSummary
    \/ Rerun

Spec == Init /\ [][Next]_vars

-----------------------------------------------------------------------------
(* Faults: configuration problems, storage-layer failures, interruption *)

Running ==
    pc \in {"methods", "datasets", "code_links", "papers", "relationships",
            "index", "summary"}
Stopped == pc \in {"done", "aborted", "killed", "failed"}

\* what a run may find: everything in place, a source file missing, the
\* target path inaccessible
Configs == {<<{}, TRUE>>, <<{"methods.json"}, TRUE>>, <<{}, FALSE>>}

\* A configuration problem is found at startup, before anything is written.
StartupFailure ==
    /\ pc = "start"
    /\ ~ConfigOk
    /\ pc' = "failed"
    /\ UNCHANGED <<sources, config, view, entityTables, junctionTables, cache,
                   cursor, relTable, batchNo, run, indexes, wlog, batchlog,
                   stats, summaries>>

\* The storage layer fails under a run: the disk is full, the file is locked.
StorageFails ==
    /\ Running
    /\ targetOk
    /\ targetOk' = FALSE
    /\ UNCHANGED <<sources, missing, view, entityTables, junctionTables, cache, pc,
                   cursor, relTable, batchNo, run, indexes, wlog, batchlog,
                   stats, summaries>>

\* The orchestrator meets the failed storage layer: it stops, and reports the
\* counts of the work done so far.
AbortSilently ==
    /\ Running
    /\ ~targetOk
    /\ pc' = "aborted"
    /\ UNCHANGED <<sources, config, view, entityTables, junctionTables, cache,
                   cursor, relTable, batchNo, run, indexes, wlog, batchlog,
                   stats, summaries>>
Abort ==
    /\ Running
    /\ ~targetOk
    /\ summaries' = Append(summaries, [run |-> run, rows |-> RowCounts, stats |-> stats])
    /\ pc' = "aborted"
    /\ UNCHANGED <<sources, config, view, entityTables, junctionTables, cache,
                   cursor, relTable, batchNo, run, indexes, wlog, batchlog,
                   stats>>

\* what is left of a batch whose transaction never committed
KeepPartial(old, written) == written
RollBack(old, written) == old

\* The run is interrupted: the process is gone, nothing is reported, and the
\* rows of a batch that was being written are not committed.
Interrupt ==
    /\ Running
    /\ pc' = "killed"
    /\ IF /\ pc = "relationships" /\ targetOk /\ relTable <= Len(RelTables)
          /\ batchNo <= NumBatches(RelTables[relTable])
       THEN LET t == RelTables[relTable]
                links == BatchOf(t, batchNo)
                rows == [i \in DOMAIN links |-> ResolveLink(t, links[i])]
                old == Junction(t)
                upto == IF BatchOk(t, rows) THEN Len(rows) ELSE FirstBad(t, rows) - 1
            IN  \E n \in 0..upto :
                    LET new == RollBack(old, InsertPairs(old, SubSeq(rows, 1, n)))
                    IN  /\ paper_authors' = IF t = "paper_authors" THEN new ELSE paper_authors
                        /\ paper_tasks' = IF t = "paper_tasks" THEN new ELSE paper_tasks
                        /\ paper_methods' = IF t = "paper_methods" THEN new ELSE paper_methods
                        /\ method_categories_rel' =
                             IF t = "method_categories_rel" THEN new
                             ELSE method_categories_rel
       ELSE UNCHANGED junctionTables
    /\ UNCHANGED <<sources, config, view, entityTables, cache, cursor, relTable,
                   batchNo, run, indexes, wlog, batchlog, stats, summaries>>

\* Between two runs the operator changes what the next run finds.
Reconfigure ==
    /\ Stopped
    /\ run < MaxRuns
    /\ \E c \in Configs : c # config /\ missing' = c[1] /\ targetOk' = c[2]
    /\ UNCHANGED <<sources, view, entityTables, junctionTables, cache, pc,
                   cursor, relTable, batchNo, run, indexes, wlog, batchlog,
                   stats, summaries>>

FaultScenarios ==
    { <<<<[BasePaper("u1") EXCEPT !.authors = <<Plain("a1"), Structured("a2")>>],
          [BasePaper("u2") EXCEPT !.methods = <<"m1", "m9">>, !.tasks = <<>>]>>,
        DefaultMethods>>,
      <<<<[BasePaper("u2") EXCEPT !.methods = <<"m1", "m9">>, !.tasks = <<>>]>>,
        DefaultMethods>>,
      <<<<BasePaper(Null), BasePaper("u1")>>, DefaultMethods>>,
      <<DefaultPapers,
        <<[url |-> "m1", name |-> "n", categories |-> <<"Transformers">>, area |-> NLP],
          [url |-> "m2", name |-> "n",
           categories |-> <<"Transformers", "Convolutional Neural Networks">>,
           area |-> CV]>>>> }

FaultInit ==
    /\ \E sc \in FaultScenarios : papersFile = sc[1] /\ methodsFile = sc[2]
    /\ datasetsFile = DefaultDatasets
    /\ codeLinksFile = DefaultCodeLinks
    /\ \E c \in Configs : missing = c[1] /\ targetOk = c[2]
    /\ FreshStore
    /\ NoPage
    /\ Quiet

FaultNext ==
    \/ Next
    \/ StartupFailure
    \/ StorageFails
    \/ Abort
    \/ Interrupt
    \/ Reconfigure

FaultSpec == FaultInit /\ [][FaultNext]_vars

-----------------------------------------------------------------------------
(* The frontend: the date helpers applied to the dates of the built store *)

loader == <<sources, config, entityTables, junctionTables, cache, pc, cursor,
            relTable, batchNo, run, indexes, wlog, batchlog, stats, summaries>>
offPage == <<loader, serverVars, hookVars, clientVars, cacheVars, pagerVars>>

\* the date strings of the test suites of the helpers, and the days around
\* the helpers' thresholds
DateStrings ==
    { Undefined, Text(""), Text("invalid-date"),
      Iso(2024, 13, 1),
      Iso(1850, 1, 1), Iso(1900, 1, 1),
      Iso(2024, 1, 1), Iso(2024, 12, 20),
      Iso(CurrentYear, 12, 31),
      Iso(CurrentYear + 1, 6, 12),
      Iso(CurrentYear + 2, 1, 1), Iso(CurrentYear + 2, 6, 12),
      Iso(2222, 12, 22) }

Todays == {Date(CurrentYear, 1, 1), Date(CurrentYear, 11, 3)}

\* the evaluations of a leaderboard: dated, undated, with a date that is no
\* date or lies far in the future; scored, unscored
EvalDates ==
    { Undefined, Text("invalid-date"), Iso(2023, 12, 20), Iso(2024, 12, 20),
      Iso(2222, 12, 22) }
EvalScores == {NoMetrics, Blank, Num(1), Num(2)}
EvalLists ==
    UNION { [1..n -> EvalDates \X EvalScores] : n \in 0..MaxEvals }
Evaluations(list) ==
    [i \in DOMAIN list |-> Evaluation(i, list[i][1], list[i][2])]

CallIsValidDate ==
    /\ ~validOut.called
    /\ validOut' = Returned(isValidDate(dateString))
    /\ UNCHANGED <<offPage, boardVars, dateString, today, tzWest, formatOut, yearOut>>

CallFormatDate ==
    /\ ~formatOut.called
    /\ formatOut' = Returned(formatDate(dateString))
    /\ UNCHANGED <<offPage, boardVars, dateString, today, tzWest, validOut, yearOut>>

CallGetYear ==
    /\ ~yearOut.called
    /\ yearOut' = Returned(getYear(dateString))
    /\ UNCHANGED <<offPage, boardVars, dateString, today, tzWest, validOut, formatOut>>

\* LeaderboardTable renders the evaluations
RenderTable ==
    /\ ~table.called
    /\ table' = Returned(LeaderboardTable(evaluations))
    /\ UNCHANGED <<offPage, dateVars, evaluations, chart>>

\* LeaderboardChart renders the evaluations
RenderChart ==
    /\ ~chart.called
    /\ \E sortedEvaluations \in ChartOrders(evaluations) :
           chart' = Returned(ChartData(evaluations, sortedEvaluations))
    /\ UNCHANGED <<offPage, dateVars, evaluations, table>>

ViewInit ==
    /\ papersFile = DefaultPapers
    /\ methodsFile = DefaultMethods
    /\ datasetsFile = DefaultDatasets
    /\ codeLinksFile = DefaultCodeLinks
    /\ missing = {}
    /\ targetOk = TRUE
    /\ FreshStore
    /\ \/ /\ dateString \in DateStrings
          /\ today \in Todays
          /\ evaluations = <<>>
       \/ /\ dateString = Undefined
          /\ today = Date(CurrentYear, 11, 3)
          /\ \E list \in EvalLists : evaluations = Evaluations(list)
    /\ tzWest \in BOOLEAN
    /\ validOut = Uncalled
    /\ formatOut = Uncalled
    /\ yearOut = Uncalled
    /\ table = Uncalled
    /\ chart = Uncalled
    /\ Quiet

ViewNext ==
    \/ CallIsValidDate
    \/ CallFormatDate
    \/ CallGetYear
    \/ RenderTable
    \/ RenderChart

ViewSpec == ViewInit /\ [][ViewNext]_vars

-----------------------------------------------------------------------------
(* The API server answering requests over the built store *)

offServer == <<sources, config, junctionTables, cache, pc, cursor, relTable,
               batchNo, run, indexes, wlog, batchlog, stats, summaries,
               dateVars, boardVars, hookVars, clientVars, cacheVars, pagerVars>>

DatasetNames == {"d1", "d2"}
TaskNames == {"t1", "t2"}

\* evaluation rows with distinct dates: a task, a dataset, the date of the
\* paper and the value of its first metric (0 when it has none)
EvaluationDbs ==
    { db \in UNION { [1..n -> [dataset : DatasetNames, task : {"t1"},
                               date : 1..MaxEvals, metric : 0..2]] :
                        n \in 0..MaxEvals } :
        \A i, j \in DOMAIN db : i # j => db[i].date # db[j].date }

\* the code_links table as the server reads it: some links carry the URL of
\* their paper, some only its title or arXiv id
LinkRows ==
    {[paper_url |-> u, paper_title |-> "T1", paper_arxiv_id |-> "ax1",
      repo_url |-> r] : u \in {"u1", "u9"}, r \in {"r1", "r2"}}
    \cup {[paper_url |-> "u2", paper_title |-> "T2", paper_arxiv_id |-> Null,
            repo_url |-> "r3"],
           [paper_url |-> Null, paper_title |-> Null, paper_arxiv_id |-> "ax1",
            repo_url |-> "r1"]}
LinkTables == UNION {[1..n -> LinkRows] : n \in 0..MaxLinks}
DefaultLinkTable == <<>>

\* the papers a page of the listing shows
ShownPapers ==
    { <<>>,
      <<[paper_url |-> "u1", title |-> "T1", arxiv_id |-> "ax1"]>>,
      <<[paper_url |-> "u2", title |-> "T2", arxiv_id |-> Null],
        [paper_url |-> "u1", title |-> "T1", arxiv_id |-> "ax1"]>> }

\* the papers page renders a page of papers with their code links
ShowPapers ==
    /\ \E shown \in ShownPapers :
          cards' = Returned([shown |-> shown,
                             cards |-> PaperCards(code_links, shown)])
    /\ UNCHANGED <<offServer, entityTables, evaluationDb, leaderboard>>

\* GET /api/leaderboard: getLeaderboard(dataset, task)
GetLeaderboard ==
    /\ \E dataset \in DatasetNames, task \in TaskNames,
          failAt \in 0..(MaxEvals + 1) :
          leaderboard' = Returned([dataset |-> dataset, task |-> task,
                                   failAt |-> failAt,
                                   out |-> getLeaderboard(evaluationDb, dataset,
                                                          task, failAt)])
    /\ UNCHANGED <<offServer, entityTables, evaluationDb, cards>>

ApiInit ==
    /\ papersFile = DefaultPapers
    /\ methodsFile = DefaultMethods
    /\ datasetsFile = DefaultDatasets
    /\ codeLinksFile = DefaultCodeLinks
    /\ missing = {}
    /\ targetOk = TRUE
    /\ papers = <<>> /\ authors = <<>> /\ tasks = <<>> /\ methods = <<>>
    /\ method_areas = <<>> /\ method_categories = <<>> /\ datasets = <<>>
    /\ paper_authors = <<>> /\ paper_tasks = <<>> /\ paper_methods = <<>>
    /\ method_categories_rel = <<>>
    /\ cache = EmptyCache
    /\ pc = "done"
    /\ cursor = 1 /\ relTable = 1 /\ batchNo = 1 /\ run = 1
    /\ indexes = {} /\ wlog = <<>> /\ batchlog = <<>>
    /\ stats = ZeroStats /\ summaries = <<>>
    /\ NoPage
    /\ \/ /\ evaluationDb \in EvaluationDbs
          /\ code_links = DefaultLinkTable
       \/ /\ evaluationDb = <<>>
          /\ code_links \in LinkTables
    /\ leaderboard = Uncalled
    /\ cards = Uncalled
    /\ NoHook
    /\ NoClient
    /\ NoListing
    /\ NoPager

ApiNext ==
    \/ GetLeaderboard
    \/ ShowPapers

ApiSpec == ApiInit /\ [][ApiNext]_vars

-----------------------------------------------------------------------------
(* The data hooks of the frontend: hooks/useData.ts *)

offHook == <<loader, dateVars, boardVars, serverVars, clientVars, cacheVars,
             pagerVars>>

Hooks == {"usePapers", "useLeaderboard"}

\* the arguments a component can render a hook with
ParamsOf(h) ==
    IF h = "usePapers"
    THEN [searchQuery : {"", "x"}, page : 1..2, limit : {20}]
    ELSE [dataset : {"", "d1"}, task : {"", "t1"}]

\* the effect of the hook makes a request for these arguments:
\* useLeaderboard returns early without a dataset or a task
MakesRequest(h, p) ==
    h = "usePapers" \/ (p.dataset # "" /\ p.task # "")

\* The component renders the hook with new arguments (the first render
\* mounts it) and the effect runs: setLoading(true), setError(null), and
\* the request is on its way.
Render ==
    /\ \E p \in ParamsOf(hook) :
          /\ p # params
          /\ params' = p
          /\ IF MakesRequest(hook, p)
             THEN /\ issued < MaxRequests
                  /\ issued' = issued + 1
                  /\ inflight' = inflight \cup {[id |-> issued + 1, params |-> p]}
                  /\ loading' = TRUE
                  /\ error' = Null
             ELSE UNCHANGED <<issued, inflight, loading, error>>
    /\ UNCHANGED <<offHook, hook, failed, held>>

\* a request resolves: the data and pagination are set, then finally
\* setLoading(false)
RequestResolves ==
    /\ \E r \in inflight :
          /\ inflight' = inflight \ {r}
          /\ held' = r
    /\ loading' = FALSE
    /\ UNCHANGED <<offHook, hook, params, issued, failed, error>>

\* a request is rejected: setError, then finally setLoading(false)
RequestRejects ==
    /\ \E r \in inflight :
          /\ inflight' = inflight \ {r}
          /\ failed' = failed \cup {r.id}
    /\ error' = "Failed to fetch"
    /\ loading' = FALSE
    /\ UNCHANGED <<offHook, hook, params, issued, held>>

HookInit ==
    /\ papersFile = DefaultPapers
    /\ methodsFile = DefaultMethods
    /\ datasetsFile = DefaultDatasets
    /\ codeLinksFile = DefaultCodeLinks
    /\ missing = {}
    /\ targetOk = TRUE
    /\ FreshStore
    /\ NoPage
    /\ NoServer
    /\ hook \in Hooks
    /\ params = NoParams
    /\ inflight = {}
    /\ issued = 0
    /\ failed = {}
    /\ held = [id |-> 0, params |-> NoParams]
    /\ loading = TRUE
    /\ error = Null
    /\ NoClient
    /\ NoListing
    /\ NoPager

HookNext ==
    \/ Render
    \/ RequestResolves
    \/ RequestRejects

HookSpec == HookInit /\ [][HookNext]_vars

-----------------------------------------------------------------------------
(* The API client loading the data files: services/api.ts *)

offClient == <<loader, dateVars, boardVars, serverVars, hookVars, cacheVars,
               pagerVars>>

DataUrls == {"papers", "codeLinks"}

\* this.cache.has(url)
IsCached(url) == url \in urlCache

\* a call never finds a load to share
NeverInFlight(url) == FALSE

\* this.loadingPromises.has(url)
IsInFlight(url) == \E e \in loadingPromises : e.url = url

\* this.loadingPromises.get(url)
PromiseFor(url) == (CHOOSE e \in loadingPromises : e.url = url).load

\* fetchAndDecompress(url), up to its await: the cached data, the promise of
\* the load in flight, or a new loadData whose promise is registered
FetchAndDecompress ==
    /\ calls < MaxRequests
    /\ calls' = calls + 1
    /\ \E url \in DataUrls :
          IF IsCached(url)
          THEN /\ lastEvent' = [kind |-> "call", url |-> url, how |-> "cached",
                                load |-> 0]
               /\ UNCHANGED <<loadingPromises, activeLoads, started>>
          ELSE IF IsInFlight(url)
          THEN /\ lastEvent' = [kind |-> "call", url |-> url, how |-> "joined",
                                load |-> PromiseFor(url)]
               /\ UNCHANGED <<loadingPromises, activeLoads, started>>
          ELSE /\ started' = started + 1
               /\ activeLoads' = activeLoads \cup {[url |-> url, load |-> started + 1]}
               /\ loadingPromises' =
                     {e \in loadingPromises : e.url # url}
                     \cup {[url |-> url, load |-> started + 1]}
               /\ lastEvent' = [kind |-> "call", url |-> url, how |-> "started",
                                load |-> started + 1]
    /\ UNCHANGED <<offClient, urlCache>>

\* the load resolves and the call that started it goes on:
\* cache.set(url, data), loadingPromises.delete(url)
LoadSucceeds ==
    /\ \E l \in activeLoads :
          /\ activeLoads' = activeLoads \ {l}
          /\ urlCache' = urlCache \cup {l.url}
          /\ loadingPromises' = {e \in loadingPromises : e.url # l.url}
          /\ lastEvent' = [kind |-> "success", url |-> l.url, how |-> "settled",
                           load |-> l.load]
    /\ UNCHANGED <<offClient, started, calls>>

\* the load is rejected and the call that started it goes on:
\* loadingPromises.delete(url), throw
LoadFails ==
    /\ \E l \in activeLoads :
          /\ activeLoads' = activeLoads \ {l}
          /\ loadingPromises' = {e \in loadingPromises : e.url # l.url}
          /\ lastEvent' = [kind |-> "failure", url |-> l.url, how |-> "settled",
                           load |-> l.load]
    /\ UNCHANGED <<offClient, urlCache, started, calls>>

ClientInit ==
    /\ papersFile = DefaultPapers
    /\ methodsFile = DefaultMethods
    /\ datasetsFile = DefaultDatasets
    /\ codeLinksFile = DefaultCodeLinks
    /\ missing = {}
    /\ targetOk = TRUE
    /\ FreshStore
    /\ NoPage
    /\ NoServer
    /\ NoHook
    /\ NoClient
    /\ NoListing
    /\ NoPager

ClientNext ==
    \/ FetchAndDecompress
    \/ LoadSucceeds
    \/ LoadFails

ClientSpec == ClientInit /\ [][ClientNext]_vars

-----------------------------------------------------------------------------
(* The API server: the cached, paginated listings of server.js *)

offListing == <<sources, config, junctionTables, cache, pc, cursor, relTable,
                batchNo, run, indexes, wlog, batchlog, stats, summaries,
                dateVars, boardVars, serverVars, hookVars, clientVars,
                pagerVars>>

\* strings are sequences of characters
DigitChars == <<"0", "1", "2", "3", "4", "5", "6", "7", "8", "9">>
NumberToString(n) ==
    IF n < 10 THEN <<DigitChars[n + 1]>>
    ELSE <<DigitChars[(n \div 10) + 1], DigitChars[(n % 10) + 1]>>

\* `papers_${page}_${limit}_${searchTerm}` and `code_links_${page}_${limit}`
CacheKey(req) ==
    IF req.endpoint = "papers"
    THEN <<"p", "a", "p", "e", "r", "s", "_">> \o NumberToString(req.page) \o <<"_">>
         \o NumberToString(req.limit) \o <<"_">> \o req.searchTerm
    ELSE <<"c", "o", "d", "e", "_", "l", "i", "n", "k", "s", "_">>
         \o NumberToString(req.page) \o <<"_">> \o NumberToString(req.limit)

\* Math.ceil(totalItems / limit)
Ceil(n, d) == (n + d - 1) \div d

\* LIMIT ? OFFSET ?
Slice(rows, limit, offset) ==
    SubSeq(rows, offset + 1,
           IF offset + limit < Len(rows) THEN offset + limit ELSE Len(rows))

Paginated(rows, req, totalItems) ==
    [data |-> rows,
     pagination |-> [page |-> req.page, limit |-> req.limit,
                     totalItems |-> totalItems,
                     totalPages |-> Ceil(totalItems, req.limit)]]

\* getCodeLinks: one query, the total taken from the first row it returns
QueryCodeLinks(req) ==
    LET codeLinks == Slice(code_links, req.limit, (req.page - 1) * req.limit)
        totalItems == IF Len(codeLinks) > 0 THEN Len(code_links) ELSE 0
    IN  Paginated(codeLinks, req, totalItems)

\* x LIKE %term%
Like(text, term) ==
    \E i \in 0..Len(text) :
       i + Len(term) <= Len(text) /\ SubSeq(text, i + 1, i + Len(term)) = term

\* the WHERE clause of getPapers
Listed(paper, term) ==
    /\ paper.date # NullDate
    /\ paper.date # Date(2222, 12, 22)
    /\ paper.date.y >= 1900
    /\ paper.date.y <= 2030
    /\ term # <<>> => Like(paper.abstract, term)

\* getPapers: a count query, then the page, newest first
QueryPapers(req) ==
    LET ids == {i \in DOMAIN papers : Listed(papers[i], req.searchTerm)}
        Later(i) ==
            Cardinality({j \in ids :
               \/ GetTime(papers[j].date) > GetTime(papers[i].date)
               \/ papers[j].date = papers[i].date /\ j > i})
        ordered == [k \in 1..Cardinality(ids) |->
                       papers[CHOOSE i \in ids : Later(i) = k - 1]]
    IN  Paginated(Slice(ordered, req.limit, (req.page - 1) * req.limit), req,
                  Cardinality(ids))

Query(req) ==
    IF req.endpoint = "papers" THEN QueryPapers(req) ELSE QueryCodeLinks(req)

\* every cached response counts as fresh
AlwaysFresh(entry, now) == TRUE

\* now - cached.timestamp < CACHE_TTL
Fresh(entry, now) == now - entry.timestamp < CACHE_TTL

\* the listing requests of the model
ListingRequests ==
    [endpoint : {"papers"}, page : {1, 11}, limit : {1},
     searchTerm : {<<>>, <<"1">>}]
    \cup [endpoint : {"code_links"}, page : {1, 2, 11}, limit : {1, 2},
           searchTerm : {<<>>}]

\* getPapers / getCodeLinks up to the first await: the cached response when
\* there is a fresh one under the key, else the query is started
ListingRequest ==
    /\ asked < MaxAsked
    /\ asked' = asked + 1
    /\ \E req \in ListingRequests :
          LET cacheKey == CacheKey(req)
              now == clock
              hits == {e \in responseCache : e.key = cacheKey /\ Fresh(e, now)}
          IN  IF hits # {}
              THEN /\ response' = [kind |-> "cached", req |-> req,
                                   data |-> (CHOOSE e \in hits : TRUE).data]
                   /\ UNCHANGED pending
              ELSE /\ pending' = pending \cup
                                    {[id |-> asked + 1, req |-> req, now |-> now]}
                   /\ UNCHANGED response
    /\ UNCHANGED <<offListing, entityTables, responseCache, clock>>

\* the queries of a request have run: cache.set(cacheKey, {data, timestamp: now})
QuerySucceeds ==
    /\ \E q \in pending :
          LET result == Query(q.req)
          IN  /\ pending' = pending \ {q}
              /\ responseCache' =
                    {e \in responseCache : e.key # CacheKey(q.req)}
                    \cup {[key |-> CacheKey(q.req), req |-> q.req,
                            data |-> result, timestamp |-> q.now,
                            storedAt |-> clock]}
              /\ response' = [kind |-> "queried", req |-> q.req, data |-> result]
    /\ UNCHANGED <<offListing, entityTables, clock, asked>>

\* a query of a request throws: nothing is stored, the route answers 500
QueryFails ==
    /\ \E q \in pending :
          /\ pending' = pending \ {q}
          /\ response' = [kind |-> "error", req |-> q.req, data |-> Null]
    /\ UNCHANGED <<offListing, entityTables, responseCache, clock, asked>>

\* cleanupCache, run by the interval timer
CleanupCache ==
    /\ LET now == clock
       IN  responseCache' =
              {e \in responseCache : ~(now - e.timestamp > CACHE_TTL)}
    /\ UNCHANGED <<offListing, entityTables, clock, pending, asked, response>>

\* time passes
Tick ==
    /\ clock < MaxClock
    /\ clock' = clock + 1
    /\ UNCHANGED <<offListing, entityTables, responseCache, pending, asked,
                   response>>

\* the store the server reads: some papers, and a code_links table
ServedPapers ==
    <<[key |-> "u1", abstract |-> <<"a", "1">>, date |-> Date(2019, 6, 12)],
      [key |-> "u2", abstract |-> <<"b">>, date |-> Date(2222, 12, 22)],
      [key |-> "u3", abstract |-> <<"1", "b">>, date |-> Date(2021, 3, 1)]>>

ServedLinks(n) ==
    [i \in 1..n |-> [paper_url |-> "u1", paper_title |-> "T1",
                     paper_arxiv_id |-> "ax1", repo_url |-> "r1"]]

ListingInit ==
    /\ papersFile = DefaultPapers
    /\ methodsFile = DefaultMethods
    /\ datasetsFile = DefaultDatasets
    /\ codeLinksFile = DefaultCodeLinks
    /\ missing = {}
    /\ targetOk = TRUE
    /\ papers = ServedPapers
    /\ \E n \in 0..MaxLinks : code_links = ServedLinks(n)
    /\ authors = <<>> /\ tasks = <<>> /\ methods = <<>>
    /\ method_areas = <<>> /\ method_categories = <<>> /\ datasets = <<>>
    /\ paper_authors = <<>> /\ paper_tasks = <<>> /\ paper_methods = <<>>
    /\ method_categories_rel = <<>>
    /\ cache = EmptyCache
    /\ pc = "done"
    /\ cursor = 1 /\ relTable = 1 /\ batchNo = 1 /\ run = 1
    /\ indexes = {} /\ wlog = <<>> /\ batchlog = <<>>
    /\ stats = ZeroStats /\ summaries = <<>>
    /\ NoPage
    /\ NoServer
    /\ NoHook
    /\ NoClient
    /\ NoListing
    /\ NoPager

ListingNext ==
    \/ ListingRequest
    \/ QuerySucceeds
    \/ QueryFails
    \/ CleanupCache
    \/ Tick

ListingSpec == ListingInit /\ [][ListingNext]_vars

-----------------------------------------------------------------------------
(* The papers page: pagination state of App.tsx over usePapers *)

offPager == <<loader, dateVars, boardVars, serverVars, hookVars, clientVars,
              cacheVars>>

\* an entry of the page list: a page number or '...'
PageNo(n) == [page |-> n]
Dots == [dots |-> TRUE]

Max(a, b) == IF a > b THEN a ELSE b
Min(a, b) == IF a < b THEN a ELSE b

\* generatePageNumbers(currentPage, totalPages)
generatePageNumbers(current, totalPages) ==
    LET delta == 2
        from == Max(2, current - delta)
        to == Min(totalPages - 1, current + delta)
        range == IF to < from THEN <<>>
                 ELSE [k \in 1..(to - from + 1) |-> PageNo(from + k - 1)]
        head == IF current - delta > 2 THEN <<PageNo(1), Dots>>
                ELSE <<PageNo(1)>>
        tail == IF current + delta < totalPages - 1
                THEN <<Dots, PageNo(totalPages)>>
                ELSE <<PageNo(totalPages)>>
    IN  head \o range \o tail

\* the searches a user makes, and the papers each finds
Queries == {"", "a", "zzz"}
Matching(query) ==
    CASE query = "" -> MaxItems
      [] query = "a" -> MaxItems \div 6
      [] OTHER -> 0

\* the options of the page-size select
PageSizes == {20, 50, 100}

\* the pagination the server returns for a request (parseInt(page) || 1)
PaginationOf(req) ==
    [page |-> IF req.page = 0 THEN 1 ELSE req.page, limit |-> req.limit,
     totalItems |-> Matching(req.query),
     totalPages |-> Ceil(Matching(req.query), req.limit)]

\* the pagination controls are on the screen
ControlsShown ==
    /\ ~papersLoading
    /\ papersError = Null
    /\ pagination # NoPagination

\* the page list of the next render
RenderPageList ==
    pageNumbers' =
       IF ~papersLoading' /\ papersError' = Null /\ pagination' # NoPagination
       THEN [rendered |-> TRUE,
             list |-> generatePageNumbers(currentPage', pagination'.totalPages)]
       ELSE NotRendered

\* a render with new state: the effect of usePapers runs when searchQuery,
\* page or limit changed, and starts a request
SetState(query, page, limit) ==
    /\ searchQuery' = query
    /\ currentPage' = page
    /\ pageSize' = limit
    /\ IF <<query, page, limit>> # <<searchQuery, currentPage, pageSize>>
       THEN /\ Cardinality(fetching) < MaxInFlight
            /\ papersLoading' = TRUE
            /\ papersError' = Null
            /\ fetching' = fetching \cup
                  {[query |-> query, page |-> page, limit |-> limit]}
       ELSE UNCHANGED <<papersLoading, papersError, fetching>>
    /\ UNCHANGED <<pagination, offPager>>
    /\ RenderPageList

\* handleSearch, called by the header's search box
HandleSearch ==
    \E query \in Queries : SetState(query, 1, pageSize)

\* the page-size select
SelectPageSize ==
    /\ ~papersLoading /\ papersError = Null
    /\ \E limit \in PageSizes : SetState(searchQuery, 1, limit)

\* the jump-to-page input with Enter or Go
JumpToPage ==
    /\ ControlsShown
    /\ \E page \in 0..(Ceil(MaxItems, 20) + 1) :
          /\ page >= 1 /\ page <= pagination.totalPages
          /\ SetState(searchQuery, page, pageSize)

\* the Previous button
Previous ==
    /\ ControlsShown
    /\ currentPage # 1
    /\ SetState(searchQuery, Max(1, currentPage - 1), pageSize)

\* the Next button
NextPage ==
    /\ ControlsShown
    /\ currentPage # pagination.totalPages
    /\ SetState(searchQuery, Min(pagination.totalPages, currentPage + 1),
                pageSize)

\* a button of the page list
PageButton ==
    /\ ControlsShown
    /\ \E i \in DOMAIN pageNumbers.list :
          /\ pageNumbers.list[i] # Dots
          /\ SetState(searchQuery, pageNumbers.list[i].page, pageSize)

\* a request of usePapers resolves
PapersResolve ==
    /\ \E req \in fetching :
          /\ fetching' = fetching \ {req}
          /\ pagination' = PaginationOf(req)
    /\ papersLoading' = FALSE
    /\ UNCHANGED <<currentPage, pageSize, searchQuery, papersError, offPager>>
    /\ RenderPageList

\* a request of usePapers rejects
PapersReject ==
    /\ \E req \in fetching : fetching' = fetching \ {req}
    /\ papersError' = "Failed to fetch papers"
    /\ papersLoading' = FALSE
    /\ UNCHANGED <<currentPage, pageSize, searchQuery, pagination, offPager>>
    /\ RenderPageList

\* the page is mounted and the first effect has started its request
PagerInit ==
    /\ papersFile = DefaultPapers
    /\ methodsFile = DefaultMethods
    /\ datasetsFile = DefaultDatasets
    /\ codeLinksFile = DefaultCodeLinks
    /\ missing = {}
    /\ targetOk = TRUE
    /\ FreshStore
    /\ NoPage
    /\ NoServer
    /\ NoHook
    /\ NoClient
    /\ NoListing
    /\ currentPage = 1
    /\ pageSize = 20
    /\ searchQuery = ""
    /\ pagination = NoPagination
    /\ papersLoading = TRUE
    /\ papersError = Null
    /\ fetching = {[query |-> "", page |-> 1, limit |-> 20]}
    /\ pageNumbers = NotRendered

PagerNext ==
    \/ HandleSearch
    \/ SelectPageSize
    \/ JumpToPage
    \/ Previous
    \/ NextPage
    \/ PageButton
    \/ PapersResolve
    \/ PapersReject

PagerSpec == PagerInit /\ [][PagerNext]_vars

-----------------------------------------------------------------------------
(* Properties of the load *)

IsPrefix(s, t) == Len(s) <= Len(t) /\ \A i \in DOMAIN s : t[i] = s[i]

UniqueKeys(tbl) == \A i, j \in DOMAIN tbl : tbl[i].key = tbl[j].key => i = j

\* the offset of the first record of a file that carries natural key u
FirstWith(file, u) ==
    CHOOSE k \in DOMAIN file :
        file[k].url = u /\ \A j \in DOMAIN file : file[j].url = u => k <= j

\* the records of papers.json handled so far in this run
PapersHandled ==
    IF pc \in {"start", "methods", "datasets", "code_links"} /\ run = 1 THEN {}
    ELSE IF pc = "papers" /\ run = 1 THEN 1..(cursor - 1)
    ELSE DOMAIN papersFile

AllKeysUnique ==
    /\ UniqueKeys(papers) /\ UniqueKeys(authors) /\ UniqueKeys(tasks)
    /\ UniqueKeys(methods) /\ UniqueKeys(method_areas)
    /\ UniqueKeys(method_categories) /\ UniqueKeys(datasets)
    /\ UniqueKeys(code_links)

ExistingRowsKept ==
    /\ IsPrefix(papers, papers') /\ IsPrefix(authors, authors')
    /\ IsPrefix(tasks, tasks') /\ IsPrefix(methods, methods')
    /\ IsPrefix(method_areas, method_areas')
    /\ IsPrefix(method_categories, method_categories')
    /\ IsPrefix(datasets, datasets')
    /\ IsPrefix(code_links, code_links')

NaturalKeyUniqueness == []AllKeysUnique /\ [][ExistingRowsKept]_vars

NaturalKeyUniquenessWitness ==
    /\ pc = "papers" /\ cursor = 3 /\ run = 1
    /\ papersFile[1].url = papersFile[2].url
    /\ papersFile[1].abstract # papersFile[2].abstract
    /\ Len(papers) = 1

\* C3: every junction row references an existing row of both of its entity
\* tables, in every state; a row with an unresolved id is never written.
ReferentialIntegrity ==
    \A n \in DOMAIN RelTables :
        \A i \in DOMAIN Junction(RelTables[n]) :
            /\ Junction(RelTables[n])[i].l \in DOMAIN LeftTable(RelTables[n])
            /\ Junction(RelTables[n])[i].r \in DOMAIN RightTable(RelTables[n])

ReferentialIntegrityWitness ==
    /\ Len(paper_methods) > 0
    /\ \E i \in DOMAIN batchlog : ~batchlog[i].ok /\ batchlog[i].tbl = "paper_methods"

\* C4: every category row has one existing area, category names are unique,
\* and no step changes a category row: the area a category got when its name
\* was first seen stays, in the same run and on a re-run.
CategoryBound ==
    /\ UniqueKeys(method_categories)
    /\ \A i \in DOMAIN method_categories :
          method_categories[i].area_id \in DOMAIN method_areas

CategoryKept ==
    /\ IsPrefix(method_categories, method_categories')
    /\ IsPrefix(method_areas, method_areas')

CategoryAreaSingleBinding == []CategoryBound /\ [][CategoryKept]_vars

CategoryAreaSingleBindingWitness ==
    /\ pc = "done" /\ run = 2
    /\ Len(methodsFile) = 2
    /\ methodsFile[1].url = "m1" /\ methodsFile[2].url = "m2"
    /\ methodsFile[1].categories = <<"Transformers">>
    /\ methodsFile[2].categories = <<"Transformers", "Convolutional Neural Networks">>
    /\ methodsFile[1].area # methodsFile[2].area
    /\ Len(method_categories) = 2
    /\ Len(method_categories_rel) = 3

\* C5: the date of every paper row is null or a valid calendar date within
\* [1900-01-01, current_year+1]; an out-of-range source date is stored as null.
StoredDateInvariant ==
    \A i \in DOMAIN papers :
        papers[i].date = NullDate \/ ValidStoredDate(papers[i].date)

\* C6: every paper record with a natural key is loaded as a paper row; its
\* date is stored as null when it is four or more years in the future or
\* before 1900, and unchanged when it is valid.
OutOfRange(dt) == dt # NullDate /\ (dt.y >= CurrentYear + 4 \/ dt.y < 1900)

DateRoundTrip ==
    \A k \in PapersHandled :
        ~Rejected(papersFile[k]) /\ FirstWith(papersFile, papersFile[k].url) = k =>
            /\ KeyId(papers, papersFile[k].url) # 0
            /\ OutOfRange(papersFile[k].date) =>
                  papers[KeyId(papers, papersFile[k].url)].date = NullDate
            /\ ValidStoredDate(papersFile[k].date) =>
                  papers[KeyId(papers, papersFile[k].url)].date = papersFile[k].date

LeftName(t) == IF t = "method_categories_rel" THEN "methods" ELSE "papers"
RightName(t) ==
    CASE t = "paper_authors" -> "authors"
      [] t = "paper_tasks" -> "tasks"
      [] t = "paper_methods" -> "methods"
      [] t = "method_categories_rel" -> "method_categories"

IsLink(e) == e.id = 0

\* entry i of the write log is a relationship row and an earlier entry is the
\* entity row with id n of table t
WrittenBefore(i, t, n) ==
    \E j \in 1..(i - 1) : wlog[j].tbl = t /\ wlog[j].id = n

\* C7: the entity row of an id is written before any relationship row that
\* references it, and a run writes relationship tables only after it has
\* consumed every entity collection, whatever the order of the records.
EntityBeforeRelationship ==
    /\ \A i \in DOMAIN wlog :
          IsLink(wlog[i]) =>
              /\ WrittenBefore(i, LeftName(wlog[i].tbl), wlog[i].l)
              /\ WrittenBefore(i, RightName(wlog[i].tbl), wlog[i].r)
    /\ pc = "relationships" =>
          /\ stats.attempted["papers"] = Len(papersFile)
          /\ stats.attempted["methods"] = Len(methodsFile)
          /\ stats.attempted["datasets"] = Len(datasetsFile)
          /\ stats.attempted["code_links"] = Len(codeLinksFile)
    /\ pc \in {"methods", "datasets", "code_links", "papers"} =>
          \A t \in {"paper_authors", "paper_tasks", "paper_methods",
                    "method_categories_rel"} : stats.attempted[t] = 0

EntityBeforeRelationshipWitness ==
    /\ pc = "relationships" /\ run = 1
    /\ Len(papersFile) = 2
    /\ papersFile[1].authors = <<Structured("a2"), Structured("a1")>>
    /\ \E i \in DOMAIN wlog :
          /\ wlog[i].tbl = "paper_authors" /\ wlog[i].l = 1 /\ wlog[i].r = 2
    /\ Len(paper_methods) > 0

\* C8: the interner maps each natural key to the id of the one row that
\* carries it, so distinct keys have distinct ids; each key has one row
\* however often it occurs; once a run has started every key of the store is
\* cached with its persisted id.
CacheConsistent(c, tbl) ==
    /\ \A k \in DOMAIN c : c[k] \in DOMAIN tbl /\ tbl[c[k]].key = k
    /\ UniqueKeys(tbl)
    /\ pc # "start" => DOMAIN c = Keys(tbl)

InternerIdentity ==
    /\ CacheConsistent(cache.authors, authors)
    /\ CacheConsistent(cache.tasks, tasks)
    /\ CacheConsistent(cache.categories, method_categories)

InternerIdentityWitness ==
    /\ run = 2 /\ pc = "relationships"
    /\ Len(papersFile) = 2
    /\ papersFile[1].authors = <<Plain("a1"), Plain("a2")>>
    /\ papersFile[2].authors = <<Plain("a1")>>
    /\ Len(authors) = 2
    /\ cache.authors["a1"] = 1 /\ cache.authors["a2"] = 2

\* C9: for every paper URL the store holds one row, and it is the row of the
\* first record of papers.json with that URL: a later record with the same
\* URL changes none of its attributes.
FirstWriteWins ==
    /\ UniqueKeys(papers)
    /\ \A k \in PapersHandled :
          ~Rejected(papersFile[k]) =>
              /\ KeyId(papers, papersFile[k].url) # 0
              /\ papers[KeyId(papers, papersFile[k].url)] =
                    PaperRow(papersFile[FirstWith(papersFile, papersFile[k].url)])

FirstWriteWinsWitness ==
    /\ pc = "done"
    /\ Len(papersFile) = 2
    /\ papersFile[1].url = "u1" /\ papersFile[2].url = "u1"
    /\ papersFile[1].abstract = "y" /\ papersFile[2].abstract = "x"
    /\ Len(papers) = 1 /\ papers[1].abstract = "y"

\* C10: a failed batch commits none of its rows, its log entry names the
\* source file and the offset of the offending record, and the run goes on:
\* when the relationship phase is over every batch of every relationship
\* table has been attempted.
BatchesOfRun(t) ==
    {i \in DOMAIN batchlog : batchlog[i].run = run /\ batchlog[i].tbl = t}

HasUnresolvedLink(t, k) ==
    \E i \in DOMAIN Candidates(t) :
        /\ Candidates(t)[i].offset = k
        /\ ~ForeignKeysHold(t, ResolveLink(t, Candidates(t)[i]))

BatchFailureIsolation ==
    /\ \A i \in DOMAIN batchlog :
          ~batchlog[i].ok =>
              /\ batchlog[i].after = batchlog[i].before
              /\ batchlog[i].file = SourceFileOf(batchlog[i].tbl)
              /\ HasUnresolvedLink(batchlog[i].tbl, batchlog[i].offset)
    /\ \A i \in DOMAIN batchlog :
          batchlog[i].ok => batchlog[i].after >= batchlog[i].before
    /\ pc \in {"index", "summary", "done"} =>
          \A n \in DOMAIN RelTables :
              /\ Cardinality(BatchesOfRun(RelTables[n])) = NumBatches(RelTables[n])
              /\ stats.attempted[RelTables[n]] = Len(Candidates(RelTables[n]))

BatchFailureIsolationWitness ==
    /\ pc = "done"
    /\ \E i, j \in DOMAIN batchlog :
          /\ i < j
          /\ batchlog[i].run = batchlog[j].run
          /\ ~batchlog[i].ok /\ batchlog[i].size > 1
          /\ batchlog[i].offset = 2
          /\ batchlog[j].ok /\ batchlog[j].after > batchlog[j].before

\* the record the orchestrator handles next lacks its natural key
MissingKeyNext ==
    \/ pc = "papers" /\ cursor <= Len(papersFile) /\ papersFile[cursor].url = Null
    \/ pc = "methods" /\ cursor <= Len(methodsFile) /\ methodsFile[cursor].url = Null
    \/ pc = "datasets" /\ cursor <= Len(datasetsFile) /\ datasetsFile[cursor].url = Null
    \/ /\ pc = "code_links" /\ cursor <= Len(codeLinksFile)
       /\ \/ codeLinksFile[cursor].paper_title = Null
          \/ codeLinksFile[cursor].repo_url = Null

RejectedAndCounted ==
    MissingKeyNext =>
        /\ entityTables' = entityTables
        /\ junctionTables' = junctionTables
        /\ wlog' = wlog
        /\ stats'.rejected[pc] = stats.rejected[pc] + 1
        /\ \A t \in TableNames \ {pc} : stats'.rejected[t] = stats.rejected[t]
        /\ \A t \in TableNames : stats'.committed[t] = stats.committed[t]
        /\ pc' = pc
        /\ cursor' = cursor + 1

NoKeylessRow ==
    /\ \A i \in DOMAIN papers : papers[i].key # Null
    /\ \A i \in DOMAIN methods : methods[i].key # Null
    /\ \A i \in DOMAIN datasets : datasets[i].key # Null
    /\ \A i \in DOMAIN code_links :
          code_links[i].key[1] # Null /\ code_links[i].key[2] # Null

\* C11: a record without its natural key writes no row to any table, raises
\* the rejected count of its collection by exactly one and changes no other
\* count, and the run goes on with the next record; no table ever holds a row
\* without its natural key.
MalformedRecordRejection == []NoKeylessRow /\ [][RejectedAndCounted]_vars

MalformedRecordRejectionWitness ==
    /\ pc = "done" /\ run = 1
    /\ Len(papersFile) = 2
    /\ papersFile[1].url = Null /\ papersFile[2].url # Null
    /\ Len(papers) = 1 /\ papers[1].key = papersFile[2].url
    /\ summaries[1].stats.rejected["papers"] = 1
    /\ summaries[1].stats.committed["papers"] = 1

\* a method record that has its key and not one label that names a category
Orphan(rec) ==
    rec.url # Null /\ \A j \in DOMAIN rec.categories : rec.categories[j] = Null

\* C12: once the relationship tables are written, a method record with no
\* category label, or with none that can be resolved, has its one method row
\* and, when no other record of that method names a category, no
\* method-category link; it is not among the rejected records and no failed
\* batch is logged for it.
OrphanMethodTolerance ==
    pc \in {"index", "summary", "done"} =>
        /\ UniqueKeys(methods)
        /\ stats.rejected["methods"] =
              Cardinality({k \in DOMAIN methodsFile : methodsFile[k].url = Null})
        /\ \A k \in DOMAIN methodsFile :
              Orphan(methodsFile[k]) =>
                  /\ KeyId(methods, methodsFile[k].url) # 0
                  /\ (\A n \in DOMAIN methodsFile :
                          methodsFile[n].url = methodsFile[k].url => Orphan(methodsFile[n]))
                      => \A i \in DOMAIN method_categories_rel :
                            method_categories_rel[i].l # KeyId(methods, methodsFile[k].url)
                  /\ \A i \in DOMAIN batchlog :
                        batchlog[i].tbl = "method_categories_rel" /\ batchlog[i].offset = k
                            => batchlog[i].ok

OrphanMethodToleranceWitness ==
    /\ pc = "done"
    /\ Len(methodsFile) = 2
    /\ methodsFile[1].url = "m1" /\ methodsFile[1].categories = <<>>
    /\ methodsFile[2].url = "m2" /\ methodsFile[2].categories = <<Null>>
    /\ Len(methods) = 2
    /\ Len(method_categories_rel) = 0 /\ Len(method_categories) = 0
    /\ stats.rejected["methods"] = 0

\* the rows a run wrote to a table
WrittenIn(t, r) ==
    Cardinality({i \in DOMAIN wlog : wlog[i].tbl = t /\ wlog[i].run = r})

LastSummary == summaries[Len(summaries)]

Keyless(file) == Cardinality({k \in DOMAIN file : file[k].url = Null})

SummaryReported ==
    pc \in {"done", "aborted"} =>
        /\ Len(summaries) > 0
        /\ LastSummary.run = run
        /\ LastSummary.rows = RowCounts
        /\ DOMAIN LastSummary.stats = {"attempted", "rejected", "committed"}
        /\ \A t \in TableNames :
              /\ LastSummary.stats.committed[t] = WrittenIn(t, run)
              /\ LastSummary.stats.rejected[t] <= LastSummary.stats.attempted[t]
        /\ \A n \in DOMAIN RelTables :
              LastSummary.stats.committed[RelTables[n]]
                  <= LastSummary.stats.attempted[RelTables[n]]
        /\ pc = "done" =>
              /\ LastSummary.stats.attempted["papers"] = Len(papersFile)
              /\ LastSummary.stats.attempted["methods"] = Len(methodsFile)
              /\ LastSummary.stats.attempted["datasets"] = Len(datasetsFile)
              /\ LastSummary.stats.attempted["code_links"] = Len(codeLinksFile)
              /\ LastSummary.stats.rejected["papers"] = Keyless(papersFile)
              /\ LastSummary.stats.rejected["methods"] = Keyless(methodsFile)
              /\ \A n \in DOMAIN RelTables :
                    LastSummary.stats.attempted[RelTables[n]]
                        = Len(Candidates(RelTables[n]))

\* a run whose storage layer has failed can always take its abort step
NeverStuck == Running /\ ~targetOk => ENABLED Abort

\* with the storage layer failed, the only step of the orchestrator is the
\* abort, which appends the summary and writes nothing else
FailedStorageAborts ==
    Running /\ ~targetOk =>
        /\ entityTables' = entityTables /\ junctionTables' = junctionTables
        /\ \/ pc' = "aborted" /\ Len(summaries') = Len(summaries) + 1
           \/ pc' = "killed"

RECURSIVE Distinct(_)
Distinct(seq) ==
    IF seq = <<>> THEN <<>>
    ELSE LET d == Distinct(SubSeq(seq, 1, Len(seq) - 1))
             x == seq[Len(seq)]
         IN  IF \E i \in DOMAIN d : d[i] = x THEN d ELSE Append(d, x)

\* The store an uninterrupted load of the source files builds, table by table.
FirstRecords(file) ==
    Distinct(Flatten([k \in DOMAIN file |->
        IF file[k].url = Null THEN <<>> ELSE <<FirstWith(file, file[k].url)>>]))

NamesIn(file, field) ==
    Distinct(Flatten([k \in DOMAIN file |->
        IF file[k].url = Null THEN <<>>
        ELSE SelectSeq(FlatNames(file[k], field), LAMBDA n : n # Null)]))

ExpectedPapers ==
    [i \in DOMAIN FirstRecords(papersFile) |->
        PaperRow(papersFile[FirstRecords(papersFile)[i]])]
ExpectedMethods ==
    [i \in DOMAIN FirstRecords(methodsFile) |->
        MethodRow(methodsFile[FirstRecords(methodsFile)[i]])]
ExpectedDatasets ==
    [i \in DOMAIN FirstRecords(datasetsFile) |->
        DatasetRow(datasetsFile[FirstRecords(datasetsFile)[i]])]
\* the first record of code-links.json with the title and repository of record k
FirstWithLink(k) ==
    CHOOSE n \in DOMAIN codeLinksFile :
        /\ codeLinksFile[n].paper_title = codeLinksFile[k].paper_title
        /\ codeLinksFile[n].repo_url = codeLinksFile[k].repo_url
        /\ \A j \in DOMAIN codeLinksFile :
              /\ codeLinksFile[j].paper_title = codeLinksFile[k].paper_title
              /\ codeLinksFile[j].repo_url = codeLinksFile[k].repo_url
              => n <= j

ExpectedCodeLinks ==
    Distinct(Flatten([k \in DOMAIN codeLinksFile |->
        IF codeLinksFile[k].paper_title = Null \/ codeLinksFile[k].repo_url = Null
        THEN <<>> ELSE <<CodeLinkRow(codeLinksFile[FirstWithLink(k)])>>]))
ExpectedAuthors ==
    [i \in DOMAIN NamesIn(papersFile, "authors") |->
        [key |-> NamesIn(papersFile, "authors")[i]]]
ExpectedTasks ==
    [i \in DOMAIN NamesIn(papersFile, "tasks") |->
        [key |-> NamesIn(papersFile, "tasks")[i]]]
ExpectedAreas ==
    LET cats == NamesIn(methodsFile, "categories")
    IN  [i \in DOMAIN Distinct([j \in DOMAIN cats |-> ClassifyArea(cats[j])]) |->
            [key |-> Distinct([j \in DOMAIN cats |-> ClassifyArea(cats[j])])[i]]]
ExpectedCategories ==
    LET cats == NamesIn(methodsFile, "categories")
    IN  [i \in DOMAIN cats |->
            [key |-> cats[i], area_id |-> KeyId(ExpectedAreas, ClassifyArea(cats[i]))]]

ExpectedLeft(t) ==
    IF t = "method_categories_rel" THEN ExpectedMethods ELSE ExpectedPapers
ExpectedRight(t) ==
    CASE t = "paper_authors" -> ExpectedAuthors
      [] t = "paper_tasks" -> ExpectedTasks
      [] t = "paper_methods" -> ExpectedMethods
      [] t = "method_categories_rel" -> ExpectedCategories

ExpectedRows(t, b) ==
    [i \in DOMAIN BatchOf(t, b) |->
        [l |-> KeyId(ExpectedLeft(t), BatchOf(t, b)[i].l),
         r |-> KeyId(ExpectedRight(t), BatchOf(t, b)[i].r),
         ord |-> BatchOf(t, b)[i].ord]]

\* the junction rows of the first b batches: a batch with an unresolved row
\* contributes nothing, a pair is kept once
RECURSIVE ExpectedJunction(_, _)
ExpectedJunction(t, b) ==
    IF b = 0 THEN <<>>
    ELSE IF \A i \in DOMAIN ExpectedRows(t, b) :
                ExpectedRows(t, b)[i].l # 0 /\ ExpectedRows(t, b)[i].r # 0
         THEN InsertPairs(ExpectedJunction(t, b - 1), ExpectedRows(t, b))
         ELSE ExpectedJunction(t, b - 1)

UniquePairs(tbl) ==
    \A i, j \in DOMAIN tbl : tbl[i].l = tbl[j].l /\ tbl[i].r = tbl[j].r => i = j

AllFilesConsumed ==
    /\ stats.attempted["papers"] = Len(papersFile)
    /\ stats.attempted["methods"] = Len(methodsFile)
    /\ stats.attempted["datasets"] = Len(datasetsFile)
    /\ stats.attempted["code_links"] = Len(codeLinksFile)

AllBatchesWritten ==
    \A n \in DOMAIN RelTables :
        /\ Cardinality(BatchesOfRun(RelTables[n])) = NumBatches(RelTables[n])
        /\ stats.attempted[RelTables[n]] = Len(Candidates(RelTables[n]))

NoIndexWhileLoading ==
    run = 1 /\ pc \in {"start", "methods", "datasets", "code_links", "papers",
                        "relationships", "index"}
        => indexes = {}

IndexesBuiltInFinalization ==
    indexes' # indexes =>
        /\ pc = "index"
        /\ AllFilesConsumed
        /\ AllBatchesWritten
        /\ indexes = {} /\ indexes' = SecondaryIndexes

\* C15: the store has no secondary index while the first load is reading its
\* source files or writing batches, and the only step that creates indexes is
\* the finalization step, taken after every source file is consumed and every
\* batch of every relationship table has been written.
DeferredIndexCreation == []NoIndexWhileLoading /\ [][IndexesBuiltInFinalization]_vars

DeferredIndexCreationWitness ==
    /\ pc = "summary" /\ run = 1
    /\ indexes = SecondaryIndexes
    /\ Cardinality(BatchesOfRun("paper_authors")) > 1
    /\ Len(paper_authors) > 2

ConfigProblem == missing # {} \/ ~targetOk

NoWorkWithoutSources ==
    /\ missing # {} => ~Running
    /\ pc = "failed" =>
          /\ \A t \in TableNames : WrittenIn(t, run) = 0
          /\ \A i \in DOMAIN batchlog : batchlog[i].run # run
          /\ \A i \in DOMAIN summaries : summaries[i].run # run

FailsAtStartup ==
    pc = "start" /\ ConfigProblem =>
        /\ pc' = "failed"
        /\ entityTables' = entityTables
        /\ junctionTables' = junctionTables
        /\ indexes' = indexes
        /\ wlog' = wlog /\ batchlog' = batchlog

\* C16: a run that finds a source file missing or the target inaccessible
\* ends at startup: its only step is the failure, which leaves every table
\* and index as it was; such a run reads no record, writes no row and
\* attempts no batch.
FailFastConfiguration == []NoWorkWithoutSources /\ [][FailsAtStartup]_vars

FailFastConfigurationWitness ==
    /\ pc = "failed" /\ run = 2
    /\ missing = {"methods.json"}
    /\ Len(summaries) = 1 /\ summaries[1].run = 1
    /\ Len(papers) = 2 /\ Len(paper_authors) = 3
    /\ RowCounts = summaries[1].rows

\* the paper-author rows of a paper
AuthorRows(p) == {i \in DOMAIN paper_authors : paper_authors[i].l = p}

OneRecord(k) == \A n \in DOMAIN papersFile : papersFile[n].url = papersFile[k].url => n = k

-----------------------------------------------------------------------------
(* Properties of the frontend's date helpers *)

\* the date is missing: undefined, or the empty string
MissingDate(ds) == Falsy(ds)

\* the string is there and is no date
UnparsableDate(ds) == ~Falsy(ds) /\ NewDate(ds).nan

\* the date is a day after the current one
FutureDate(ds) ==
    /\ ~Falsy(ds)
    /\ ~NewDate(ds).nan
    /\ GetTime(NewDate(ds)) > GetTime(NewDate(Iso(today.y, today.m, today.d)))

\* C18: isValidDate returns false for a missing date, for an unparsable date
\* string and for every future date, and true for every other date.
IsValidDateContract ==
    validOut.called =>
        validOut.value = ~(\/ MissingDate(dateString)
                           \/ UnparsableDate(dateString)
                           \/ FutureDate(dateString))

\* C19: the date helpers agree on validity: for a date string that isValidDate
\* rejects, formatDate is "N/A" and getYear is 1900; for one it accepts,
\* formatDate is the formatted date and getYear the year of the date.
DateHelpersAgree ==
    (validOut.called /\ formatOut.called /\ yearOut.called) =>
        IF validOut.value
        THEN /\ formatOut.value = ToLocaleDateString(NewDate(dateString))
             /\ yearOut.value = dateString.y
        ELSE /\ formatOut.value = NotAvailable
             /\ yearOut.value = 1900

\* the same, in a browser whose time zone is not west of UTC
DateHelpersAgreeAtUTC == ~tzWest => DateHelpersAgree

-----------------------------------------------------------------------------
(* Properties of the leaderboard components *)

\* the evaluations LeaderboardTable sorts, ranks, flags as records or hands to
\* the performance chart
TableRows ==
    {table.value.sortedEvaluations[i] :
        i \in DOMAIN table.value.sortedEvaluations}
    \cup {table.value.sortedForLeaderboard[i].e :
             i \in DOMAIN table.value.sortedForLeaderboard}
    \cup {table.value.processedEvaluations[i].e :
             i \in {j \in DOMAIN table.value.processedEvaluations :
                       table.value.processedEvaluations[j].isNewRecord}}
    \cup {evaluations[k] :
             k \in {j \in DOMAIN evaluations :
                       \E i \in DOMAIN table.value.cumulativeBest :
                          table.value.cumulativeBest[i].id = j}}

\* the evaluations LeaderboardChart plots
ChartRows ==
    IF chart.value.null THEN {}
    ELSE {chart.value.validEvaluations[i] :
             i \in DOMAIN chart.value.validEvaluations}

\* C20: the leaderboard components filter out the evaluations with invalid
\* dates before processing: no evaluation whose date fails isValidDate is
\* among the rows that are sorted, ranked, flagged as records or plotted.
InvalidDatesFilteredOut ==
    /\ table.called => \A e \in TableRows : isValidDate(e.date)
    /\ chart.called => \A e \in ChartRows : isValidDate(e.date)

\* the two components, each on its own
TableFiltersInvalidDates ==
    table.called => \A e \in TableRows : isValidDate(e.date)
ChartFiltersInvalidDates ==
    chart.called => \A e \in ChartRows : isValidDate(e.date)

\* the rows of the processed leaderboard that carry a score, among the first n
ScoredUpTo(n) ==
    {j \in 1..n : table.value.processedEvaluations[j].numericScore.kind = "num"}

\* row i of the processed leaderboard carries the best score of the rows up
\* to and including it, and is a new record exactly when it beats them all
RowTracksBest(i) ==
    LET rows == table.value.processedEvaluations
        before == ScoredUpTo(i - 1)
        upTo == ScoredUpTo(i)
    IN  /\ rows[i].cumulativeBest =
              IF upTo = {} THEN MinusInfinity
              ELSE rows[CHOOSE j \in upTo :
                          \A k \in upTo :
                             rows[j].numericScore.v >= rows[k].numericScore.v
                       ].numericScore
        /\ rows[i].isNewRecord =
              (/\ i \in upTo
               /\ \A j \in before :
                     rows[i].numericScore.v > rows[j].numericScore.v)

\* C21: with the evaluations processed oldest first, the cumulative best of
\* each row is the highest primary-metric score of the rows up to and
\* including it, and a row is a new record when its score exceeds the
\* previous best.
CumulativeBestTracksMax ==
    (table.called /\ table.value.sortedEvaluations # <<>>) =>
        \A i \in DOMAIN table.value.processedEvaluations : RowTracksBest(i)

\* the same, for a leaderboard whose evaluations all carry a valid date
CumulativeBestOfValidDates ==
    (\A i \in DOMAIN evaluations : isValidDate(evaluations[i].date))
        => CumulativeBestTracksMax

CumulativeBestOfValidDatesWitness ==
    /\ table.called
    /\ Len(evaluations) = 2
    /\ \A i \in DOMAIN evaluations : isValidDate(evaluations[i].date)
    /\ table.value.processedEvaluations[1].e.id = 2
    /\ table.value.processedEvaluations[1].cumulativeBest = Num(2)
    /\ table.value.processedEvaluations[2].numericScore = Num(1)
    /\ ~table.value.processedEvaluations[2].isNewRecord
    /\ table.value.processedEvaluations[2].cumulativeBest = Num(2)

-----------------------------------------------------------------------------
(* Properties of the API server *)

\* the evaluation query of the last getLeaderboard call failed
QueryFailed ==
    /\ leaderboard.called
    /\ getEvaluationResults(evaluationDb, leaderboard.value.dataset,
                            leaderboard.value.task,
                            leaderboard.value.failAt).threw

\* C22: whenever the underlying evaluation query fails, getLeaderboard
\* returns [] and raises no error to its caller, for every dataset and task.
LeaderboardNeverThrows ==
    /\ leaderboard.called => ~leaderboard.value.out.threw
    /\ QueryFailed => leaderboard.value.out = Resolved(<<>>)

\* a metrics query of a leaderboard with two results failed, and the caller
\* got []
LeaderboardNeverThrowsWitness ==
    /\ QueryFailed
    /\ leaderboard.value.failAt = 2
    /\ Len(MatchingResults(evaluationDb, leaderboard.value.dataset,
                            leaderboard.value.task)) = 2
    /\ leaderboard.value.out = Resolved(<<>>)

\* the paper of the page a code link belongs to: the one with its URL, else
\* the one with its title, else the one with its arXiv id; 0 when none
ByUrl(link, shown) ==
    {i \in DOMAIN shown : link.paper_url # Null
                          /\ shown[i].paper_url = link.paper_url}
ByTitle(link, shown) ==
    {i \in DOMAIN shown : link.paper_title # Null
                          /\ shown[i].title = link.paper_title}
ByArxivId(link, shown) ==
    {i \in DOMAIN shown : link.paper_arxiv_id # Null
                          /\ shown[i].arxiv_id = link.paper_arxiv_id}
PaperOfLink(link, shown) ==
    IF ByUrl(link, shown) # {} THEN ByUrl(link, shown)
    ELSE IF ByTitle(link, shown) # {} THEN ByTitle(link, shown)
    ELSE ByArxivId(link, shown)

\* C23: a code link is associated with its paper by a URL match, then a
\* title match, then an arXiv-id match, the first match deciding; a link
\* whose paper URL does not match but whose title or arXiv id does is still
\* associated with that paper.
CodeLinkJoinPolicy ==
    cards.called =>
        \A l \in DOMAIN code_links, i \in DOMAIN cards.value.cards :
           (i \in PaperOfLink(code_links[l], cards.value.shown)) =
              (\E k \in DOMAIN cards.value.cards[i].codeLinks :
                  cards.value.cards[i].codeLinks[k].repo_url
                     = code_links[l].repo_url)

\* the same, for the links that carry the URL of a paper of the page
CodeLinkJoinByUrl ==
    cards.called =>
        \A l \in DOMAIN code_links, i \in DOMAIN cards.value.cards :
           (i \in ByUrl(code_links[l], cards.value.shown)) =>
              (\E k \in DOMAIN cards.value.cards[i].codeLinks :
                  cards.value.cards[i].codeLinks[k].repo_url
                     = code_links[l].repo_url)

-----------------------------------------------------------------------------
(* Properties of the data hooks *)

\* the hook is mounted and every request it made has settled
AllSettled == params # NoParams /\ inflight = {}

\* C24: for any sequence of changes to the arguments and any order in which
\* the responses arrive, once all in-flight requests have settled the data
\* held by the hook are those of the response to the most recently requested
\* arguments.
LatestRequestWins ==
    (/\ AllSettled
     /\ MakesRequest(hook, params)
     /\ issued \notin failed)
        => held.params = params

\* C26: loading is true exactly while at least one request of the hook is in
\* flight: false once the last outstanding request has settled, never true
\* when none is outstanding.
LoadingTracksRequests ==
    params # NoParams => (loading = (inflight # {}))

-----------------------------------------------------------------------------
(* Properties of the API client *)

LoadsOf(url) == {l \in activeLoads : l.url = url}

\* no URL has two loads in flight
AtMostOneLoad == \A url \in DataUrls : Cardinality(LoadsOf(url)) <= 1

\* what a call of fetchAndDecompress does, by what it finds
CallSharesOrStarts ==
    calls' = calls + 1 =>
        LET url == lastEvent'.url
        IN  IF url \in urlCache
            THEN lastEvent'.how = "cached" /\ started' = started
            ELSE IF LoadsOf(url) # {}
            THEN /\ lastEvent'.how = "joined"
                 /\ \E l \in LoadsOf(url) : lastEvent'.load = l.load
                 /\ started' = started
            ELSE lastEvent'.how = "started" /\ started' = started + 1

\* what a settled load leaves behind
SettledLoadCleansUp ==
    activeLoads' # activeLoads /\ calls' = calls =>
        /\ ~\E e \in loadingPromises' : e.url = lastEvent'.url
        /\ lastEvent'.kind = "failure" => urlCache' = urlCache
        /\ lastEvent'.kind = "success" => lastEvent'.url \in urlCache'

\* C25: for any interleaving of fetchAndDecompress calls for the same URL,
\* loadData is started at most once until that load settles; a caller
\* arriving while it is in flight gets the same promise, a caller arriving
\* after success gets the cached data without a new load, and after a failed
\* load the in-flight entry is removed and nothing is cached, so that the
\* next call starts a new load.
SingleInFlightLoad ==
    /\ []AtMostOneLoad
    /\ [][CallSharesOrStarts]_vars
    /\ [][SettledLoadCleansUp]_vars

\* two calls shared one load, the load failed and left nothing cached, and
\* the third call started a new load
SingleInFlightLoadWitness ==
    /\ calls = 3
    /\ started = 2
    /\ urlCache = {}
    /\ lastEvent = [kind |-> "call", url |-> "papers", how |-> "started",
                    load |-> 2]
    /\ activeLoads = {[url |-> "papers", load |-> 2]}

-----------------------------------------------------------------------------
(* C27: cache freshness of the paginated listings *)

\* the age of a cached response, counted from the moment it was stored
AgeSinceStored(e) == clock - e.storedAt

\* the age of a cached response by its timestamp, which is the time at which
\* the request that produced it started
AgeByTimestamp(e) == clock - e.timestamp

\* a step that answers a request from the cache
CacheHit == asked' # asked /\ pending' = pending

\* a step in which the query of a request returns
QueryReturns == pending' # pending /\ asked' = asked /\ response'.kind = "queried"

\* a step in which the query of a request throws
QueryThrows == pending' # pending /\ asked' = asked /\ response'.kind = "error"

\* a step of cleanupCache
Cleanup == pending' = pending /\ asked' = asked /\ clock' = clock

CacheSteps(Age(_)) ==
    /\ CacheHit =>
          \E e \in responseCache :
             /\ e.req = response'.req
             /\ e.data = response'.data
             /\ Age(e) < CACHE_TTL
    /\ QueryReturns =>
          LET q == CHOOSE q \in pending \ pending' : TRUE
              same == {e \in responseCache' : e.req = q.req}
          IN  /\ same = {e \in responseCache' : e.key = CacheKey(q.req)}
              /\ Cardinality(same) = 1
              /\ \A e \in same : e.data = response'.data /\ e.data = Query(q.req)
              /\ {e \in responseCache' : e.req # q.req}
                    = {e \in responseCache : e.req # q.req}
    /\ QueryThrows => responseCache' = responseCache
    /\ Cleanup =>
          /\ responseCache' \subseteq responseCache
          /\ \A e \in responseCache \ responseCache' : Age(e) > CACHE_TTL

\* C27: a cached response is returned only for a request with the identical
\* key and only if it was stored less than CACHE_TTL ago, otherwise a fresh
\* query is made and its result replaces the entry; a failing query stores
\* nothing; cleanupCache removes only entries stored more than CACHE_TTL ago
CacheFreshness == [][CacheSteps(AgeSinceStored)]_vars

\* C27, amended: the same, with the age of an entry counted from the start of
\* the request that stored it (the timestamp the code keeps), not from the
\* moment the entry was written
CacheFreshnessByTimestamp == [][CacheSteps(AgeByTimestamp)]_vars

\* a request was answered from the cache while the cache holds an entry that
\* was written later than its timestamp, and an entry has been cleaned up
CacheFreshnessWitness ==
    /\ response.kind = "cached"
    /\ asked = MaxAsked
    /\ \E e \in responseCache : e.storedAt > e.timestamp /\ e.req = response.req

-----------------------------------------------------------------------------
(* C29: the totals of the code-links listing *)

\* the latest answer is a code-links listing
CodeLinksAnswered ==
    /\ response.kind \in {"cached", "queried"}
    /\ response.req.endpoint = "code_links"

\* C29: for every requested page of the code-links listing, also a page beyond
\* the last one, pagination.totalItems is the number of rows of the code_links
\* table and pagination.totalPages is ceil(totalItems / limit)
PageIndependentTotals ==
    CodeLinksAnswered =>
       /\ response.data.pagination.totalItems = Len(code_links)
       /\ response.data.pagination.totalPages
             = Ceil(Len(code_links), response.req.limit)

\* the totals of the code-links listing are right whenever the requested page
\* has a row
TotalsOfNonEmptyPage ==
    CodeLinksAnswered /\ response.data.data # <<>> => PageIndependentTotals

-----------------------------------------------------------------------------
(* C28: the current page of the papers page stays in range *)

\* every request of usePapers has been answered and a result is held
PapersSettled == fetching = {} /\ pagination # NoPagination

\* C28: after any sequence of Previous, Next, page-button, jump-to-page,
\* page-size and search changes and any server responses, also an empty result
\* with totalPages = 0, 1 <= currentPage <= max(1, totalPages) of the current
\* result set
CurrentPageInRange ==
    PapersSettled =>
       /\ 1 <= currentPage
       /\ currentPage <= Max(1, pagination.totalPages)

-----------------------------------------------------------------------------
(* C30: generatePageNumbers *)

\* the page list is on the screen for totalPages >= 1 and a page in range
PageListInDomain ==
    /\ pageNumbers # NotRendered
    /\ pagination.totalPages >= 1
    /\ 1 <= currentPage /\ currentPage <= pagination.totalPages

\* the properties claimed of a page list
WellFormedPageList(list, current, totalPages) ==
    LET numeric == {i \in DOMAIN list : list[i] # Dots}
    IN  /\ \A i, j \in numeric : i < j => list[i].page < list[j].page
        /\ list[1] = PageNo(1)
        /\ list[Len(list)] = PageNo(totalPages)
        /\ \A n \in (current - 2)..(current + 2) :
              1 <= n /\ n <= totalPages
              => \E i \in numeric : list[i].page = n
        /\ \A i \in DOMAIN list \ numeric :
              /\ i - 1 \in numeric /\ i + 1 \in numeric
              /\ list[i + 1].page - list[i - 1].page >= 2

\* C30: for totalPages >= 1 and 1 <= currentPage <= totalPages the numeric
\* entries of generatePageNumbers are strictly increasing, the first is 1, the
\* last is totalPages, currentPage and every page within 2 of it are included,
\* and an ellipsis stands only between two numbers that skip a page
PageNumbersWellFormed ==
    PageListInDomain =>
       WellFormedPageList(pageNumbers.list, currentPage, pagination.totalPages)

\* the same for totalPages >= 2
PageNumbersWellFormedFromTwo ==
    PageListInDomain /\ pagination.totalPages >= 2 => PageNumbersWellFormed

\* a page list with an ellipsis on both sides is on the screen
PageListWithTwoEllipses ==
    /\ PageListInDomain
    /\ Cardinality({i \in DOMAIN pageNumbers.list : pageNumbers.list[i] = Dots})
          = 2

=========================================================================
